---- MODULE Spec2Model ----
(***************************************************************************)
(* Repo-Visualizer: the extraction engine (server scan `scanProject` and   *)
(* browser scan `scanDirectoryHandle`) as a state machine.                 *)
(*                                                                         *)
(* Strings are sequences of one-character strings, so that prefix tests,   *)
(* extension lookup, path joining and edge keys are computed the way the   *)
(* code computes them.                                                     *)
(***************************************************************************)
EXTENDS Integers, Sequences, FiniteSets, TLC

(***************************************************************************)
(* String primitives (JavaScript String methods used by the code).         *)
(***************************************************************************)
Min(a, b) == IF a < b THEN a ELSE b

StartsWith(s, p) ==
  /\ Len(p) <= Len(s)
  /\ SubSeq(s, 1, Len(p)) = p

EndsWith(s, p) ==
  /\ Len(p) <= Len(s)
  /\ SubSeq(s, Len(s) - Len(p) + 1, Len(s)) = p

Includes(s, c) == \E i \in 1..Len(s) : s[i] = c

\* String.prototype.lastIndexOf for a single character; 0 when absent
\* (positions are 1-based here, so 0 plays the role of -1).
LastIndexOf(s, c) ==
  IF Includes(s, c)
    THEN CHOOSE i \in 1..Len(s) : s[i] = c /\ \A j \in (i+1)..Len(s) : s[j] # c
    ELSE 0

IndexOf(s, c) ==
  IF Includes(s, c)
    THEN CHOOSE i \in 1..Len(s) : s[i] = c /\ \A j \in 1..(i-1) : s[j] # c
    ELSE 0

\* s.slice(n) with a 0-based start n
SliceFrom(s, n) == SubSeq(s, n + 1, Len(s))

\* s.slice(0, n)
SliceTo(s, n) == SubSeq(s, 1, Min(n, Len(s)))

RECURSIVE Split(_, _)
\* s.split(c): the pieces between occurrences of the character c
Split(s, c) ==
  IF ~Includes(s, c) THEN <<s>>
  ELSE LET i == IndexOf(s, c)
       IN <<SubSeq(s, 1, i - 1)>> \o Split(SubSeq(s, i + 1, Len(s)), c)

RECURSIVE JoinWith(_, _)
\* parts.join(sep)
JoinWith(parts, sep) ==
  IF Len(parts) = 0 THEN <<>>
  ELSE IF Len(parts) = 1 THEN parts[1]
  ELSE parts[1] \o sep \o JoinWith(Tail(parts), sep)

\* array.filter(Boolean) on an array of strings
FilterNonEmpty(parts) == SelectSeq(parts, LAMBDA x : x # <<>>)

RECURSIVE Trim(_)
\* String.prototype.trim (blank = space)
Trim(s) ==
  IF s # <<>> /\ Head(s) = " " THEN Trim(Tail(s))
  ELSE IF s # <<>> /\ s[Len(s)] = " " THEN Trim(SubSeq(s, 1, Len(s) - 1))
  ELSE s

SLASH == <<"/">>
DOT == <<".">>
DOTDOT == <<".", ".">>
STARSTAR == <<"*", "*">>

(***************************************************************************)
(* node:path (posix) as used by the server scan.                           *)
(***************************************************************************)
RECURSIVE NormalizeSegs(_, _, _)
\* the segment walk of path.posix.normalize: "." and "" dropped, ".." pops,
\* and ".." is kept at the front of a relative path
NormalizeSegs(parts, stack, isAbs) ==
  IF parts = <<>> THEN stack
  ELSE LET part == Head(parts)
       IN IF part = <<>> \/ part = DOT
            THEN NormalizeSegs(Tail(parts), stack, isAbs)
          ELSE IF part = DOTDOT
            THEN IF stack # <<>> /\ stack[Len(stack)] # DOTDOT
                   THEN NormalizeSegs(Tail(parts), SubSeq(stack, 1, Len(stack) - 1), isAbs)
                 ELSE IF isAbs
                   THEN NormalizeSegs(Tail(parts), stack, isAbs)
                 ELSE NormalizeSegs(Tail(parts), Append(stack, part), isAbs)
          ELSE NormalizeSegs(Tail(parts), Append(stack, part), isAbs)

\* path.posix.normalize
PathNormalize(p) ==
  IF p = <<>> THEN DOT
  ELSE LET isAbs == Head(p) = "/"
           trailing == p[Len(p)] = "/"
           body == JoinWith(NormalizeSegs(Split(p, "/"), <<>>, isAbs), SLASH)
           body2 == IF body = <<>> /\ ~isAbs THEN DOT ELSE body
           body3 == IF body2 # <<>> /\ trailing THEN body2 \o SLASH ELSE body2
       IN IF isAbs THEN SLASH \o body3 ELSE body3

\* path.join / path.posix.join
PathJoin(parts) ==
  LET kept == FilterNonEmpty(parts)
  IN IF kept = <<>> THEN DOT ELSE PathNormalize(JoinWith(kept, SLASH))

\* path.resolve(from, to) for an absolute `from`
PathResolve(from, to) ==
  LET joined == IF to # <<>> /\ Head(to) = "/" THEN to ELSE from \o SLASH \o to
      segs == NormalizeSegs(Split(joined, "/"), <<>>, TRUE)
  IN SLASH \o JoinWith(segs, SLASH)

\* path.dirname
PathDirname(p) ==
  LET i == LastIndexOf(p, "/")
  IN IF i = 0 THEN DOT
     ELSE IF i = 1 THEN SLASH
     ELSE SubSeq(p, 1, i - 1)

\* path.basename
PathBasename(p) ==
  LET i == LastIndexOf(p, "/")
  IN IF i = 0 THEN p ELSE SubSeq(p, i + 1, Len(p))

\* path.extname: from the last "." of the base name, "" when that dot is
\* the first character of the base name or there is none
PathExtname(p) ==
  LET base == PathBasename(p)
      i == LastIndexOf(base, ".")
  IN IF i <= 1 \/ base = DOTDOT THEN <<>> ELSE SubSeq(base, i, Len(base))

RECURSIVE CommonPrefixLen(_, _)
CommonPrefixLen(a, b) ==
  IF a = <<>> \/ b = <<>> \/ Head(a) # Head(b) THEN 0
  ELSE 1 + CommonPrefixLen(Tail(a), Tail(b))

\* path.relative(from, to) for absolute, normalized arguments
PathRelative(from, to) ==
  LET f == FilterNonEmpty(Split(from, "/"))
      t == FilterNonEmpty(Split(to, "/"))
      n == CommonPrefixLen(f, t)
      ups == [i \in 1..(Len(f) - n) |-> DOTDOT]
  IN JoinWith(ups \o SubSeq(t, n + 1, Len(t)), SLASH)

\* posixPath: path.sep is "/" on the modelled platform
posixPath(value) == JoinWith(Split(value, "/"), SLASH)

(***************************************************************************)
(* Path helpers of the browser scan.                                       *)
(***************************************************************************)
RECURSIVE CollapseSlashes(_)
\* .replace(/\/+/g, '/')
CollapseSlashes(s) ==
  IF Len(s) < 2 THEN s
  ELSE IF s[1] = "/" /\ s[2] = "/" THEN CollapseSlashes(Tail(s))
  ELSE <<s[1]>> \o CollapseSlashes(Tail(s))

posixJoin(parts) == CollapseSlashes(JoinWith(FilterNonEmpty(parts), SLASH))

posixDirname(value) ==
  LET idx == LastIndexOf(value, "/")
  IN IF idx = 0 THEN <<>> ELSE SubSeq(value, 1, idx - 1)

posixBasename(value) ==
  LET idx == LastIndexOf(value, "/")
  IN IF idx = 0 THEN value ELSE SubSeq(value, idx + 1, Len(value))

posixExtname(value) ==
  LET base == posixBasename(value)
      idx == LastIndexOf(base, ".")
  IN IF idx = 0 THEN <<>> ELSE SubSeq(base, idx, Len(base))

RECURSIVE NormalizePosixLoop(_, _, _)
NormalizePosixLoop(parts, stack, escaped) ==
  IF parts = <<>> THEN [path |-> JoinWith(stack, SLASH), escapedRoot |-> escaped]
  ELSE LET part == Head(parts)
       IN IF part = <<>> \/ part = DOT
            THEN NormalizePosixLoop(Tail(parts), stack, escaped)
          ELSE IF part = DOTDOT
            THEN IF stack # <<>>
                   THEN NormalizePosixLoop(Tail(parts), SubSeq(stack, 1, Len(stack) - 1), escaped)
                   ELSE NormalizePosixLoop(Tail(parts), stack, TRUE)
          ELSE NormalizePosixLoop(Tail(parts), Append(stack, part), escaped)

normalizePosixPath(value) == NormalizePosixLoop(Split(value, "/"), <<>>, FALSE)

(***************************************************************************)
(* Program constants.                                                      *)
(***************************************************************************)
NULL == <<"NULL">>

ALWAYS_IGNORE ==
  << <<".", "g", "i", "t", "/">>,
     <<"n", "o", "d", "e", "_", "m", "o", "d", "u", "l", "e", "s", "/">>,
     <<".", "n", "e", "x", "t", "/">>,
     <<"d", "i", "s", "t", "/">>,
     <<"b", "u", "i", "l", "d", "/">>,
     <<"o", "u", "t", "/">>,
     <<"c", "o", "v", "e", "r", "a", "g", "e", "/">>,
     <<".", "t", "u", "r", "b", "o", "/">>,
     <<".", "c", "a", "c", "h", "e", "/">>,
     <<".", "D", "S", "_", "S", "t", "o", "r", "e">> >>

SCRIPT_EXTENSIONS ==
  { <<".", "j", "s">>, <<".", "j", "s", "x">>, <<".", "t", "s">>,
    <<".", "t", "s", "x">>, <<".", "m", "j", "s">>, <<".", "c", "j", "s">> }

STYLE_EXTENSIONS ==
  { <<".", "c", "s", "s">>, <<".", "s", "c", "s", "s">>, <<".", "s", "a", "s", "s">> }

SUPPORTED_EXTENSIONS == SCRIPT_EXTENSIONS \cup STYLE_EXTENSIONS

IMPORT_EXTENSIONS ==
  << <<".", "t", "s">>, <<".", "t", "s", "x">>, <<".", "j", "s">>,
     <<".", "j", "s", "x">>, <<".", "m", "j", "s">>, <<".", "c", "j", "s">>,
     <<".", "c", "s", "s">>, <<".", "s", "c", "s", "s">>, <<".", "s", "a", "s", "s">> >>

EXTERNAL_ID == <<"_", "_", "e", "x", "t", "e", "r", "n", "a", "l", "_", "_">>

INDEX == <<"i", "n", "d", "e", "x">>

\* statement text kept on an edge: dep.statement?.slice(0, 200)
StatementLimit == 200

\* the extension function of each scan: path.extname on the server,
\* posixExtname in the browser
ExtOf(env, p) == IF env = "server" THEN PathExtname(p) ELSE posixExtname(p)

isSupportedFile(env, filePath) == ExtOf(env, filePath) \in SUPPORTED_EXTENSIONS

(***************************************************************************)
(* Ignore engine: normalizeGitignorePattern, and the matching that         *)
(* ignore().add(patterns).ignores(relPath) performs on the patterns.       *)
(***************************************************************************)
normalizeGitignorePattern(env, dirRel, rawPattern) ==
  LET join(parts) == IF env = "server" THEN PathJoin(parts) ELSE posixJoin(parts)
      p0 == Trim(rawPattern)
  IN IF p0 = <<>> \/ Head(p0) = "#" THEN NULL
     ELSE LET negated == Head(p0) = "!"
              p1 == IF negated THEN SliceFrom(p0, 1) ELSE p0
          IN IF p1 = <<>> THEN NULL
             ELSE LET anchored == Head(p1) = "/"
                      pattern == IF anchored THEN SliceFrom(p1, 1) ELSE p1
                      hasSlash == Includes(pattern, "/")
                      endsWithSlash == EndsWith(pattern, SLASH)
                      base == dirRel
                      prefixed0 ==
                        IF base # <<>>
                          THEN IF anchored \/ hasSlash
                                 THEN join(<<base, pattern>>)
                                 ELSE join(<<base, STARSTAR, pattern>>)
                          ELSE IF ~anchored /\ ~hasSlash
                                 THEN join(<<STARSTAR, pattern>>)
                                 ELSE pattern
                      prefixed ==
                        IF endsWithSlash /\ ~EndsWith(prefixed0, SLASH)
                          THEN prefixed0 \o SLASH
                          ELSE prefixed0
                  IN IF negated THEN <<"!">> \o prefixed ELSE prefixed

\* the patterns a directory's ignore file contributes:
\* content.split(/\r?\n/).map(normalize).filter(Boolean)
ExtraPatterns(env, relDir, lines) ==
  SelectSeq([i \in 1..Len(lines) |-> normalizeGitignorePattern(env, relDir, lines[i])],
            LAMBDA v : v # NULL /\ v # <<>>)

RECURSIVE GlobSeg(_, _)
\* one path segment against one pattern segment; "*" is any run of
\* characters inside the segment
GlobSeg(pat, seg) ==
  IF pat = <<>> THEN seg = <<>>
  ELSE IF Head(pat) = "*"
    THEN \E k \in 0..Len(seg) : GlobSeg(Tail(pat), SubSeq(seg, k + 1, Len(seg)))
  ELSE seg # <<>> /\ Head(pat) = Head(seg) /\ GlobSeg(Tail(pat), Tail(seg))

RECURSIVE MatchSegs(_, _)
\* anchored pattern segments against the whole path; a leading or inner
\* "**" stands for any number of directories, a final "**" for at least one
MatchSegs(pat, segs) ==
  IF pat = <<>> THEN segs = <<>>
  ELSE IF Head(pat) = STARSTAR
    THEN IF Len(pat) = 1
           THEN Len(segs) >= 1
           ELSE \E k \in 0..Len(segs) : MatchSegs(Tail(pat), SubSeq(segs, k + 1, Len(segs)))
  ELSE segs # <<>> /\ GlobSeg(Head(pat), Head(segs)) /\ MatchSegs(Tail(pat), Tail(segs))

\* does one rule (without its "!") match the path; a path naming a
\* directory ends in "/"; a rule ending in "/" matches directories only
RuleMatches(body, p) ==
  LET dirOnly == EndsWith(body, SLASH)
      inner == IF dirOnly THEN SubSeq(body, 1, Len(body) - 1) ELSE body
      anchored == Includes(inner, "/")
      psegs == FilterNonEmpty(Split(inner, "/"))
      isDirPath == EndsWith(p, SLASH)
      segs == FilterNonEmpty(Split(p, "/"))
  IN /\ dirOnly => isDirPath
     /\ psegs # <<>>
     /\ segs # <<>>
     /\ IF anchored
          THEN MatchSegs(psegs, segs)
          ELSE GlobSeg(psegs[1], segs[Len(segs)])

RECURSIVE TestOne(_, _, _)
\* the rules are applied in order and the last one that matches decides;
\* a negated rule that matches un-ignores
TestOne(rules, p, ignored) ==
  IF rules = <<>> THEN ignored
  ELSE LET rule == Head(rules)
           negative == rule # <<>> /\ Head(rule) = "!"
           body == IF negative THEN Tail(rule) ELSE rule
       IN TestOne(Tail(rules), p,
                  IF RuleMatches(body, p) THEN ~negative ELSE ignored)

\* ig.ignores(relPath): a path below an ignored directory is ignored, and
\* cannot be re-included; parent directories are tested with a trailing "/"
Ignores(rules, relPath) ==
  LET segs == Split(relPath, "/")
      n == Len(segs)
      parent(k) == JoinWith(SubSeq(segs, 1, k), SLASH) \o SLASH
  IN \/ \E k \in 1..(n - 1) : TestOne(rules, parent(k), FALSE)
     \/ TestOne(rules, relPath, FALSE)

(***************************************************************************)
(* Node typing.                                                            *)
(***************************************************************************)
\* String.prototype.includes for a substring
IncludesSub(s, sub) ==
  \E i \in 1..(Len(s) - Len(sub) + 1) : SubSeq(s, i, i + Len(sub) - 1) = sub

APP == <<"a", "p", "p">>
PAGES == <<"p", "a", "g", "e", "s">>

\* the extensions \.(t|j)sx?
RouteExtensions ==
  { <<".", "t", "s">>, <<".", "t", "s", "x">>, <<".", "j", "s">>, <<".", "j", "s", "x">> }

\* ROUTE_REGEX.app = /(^|\/)app\/(.*\/)?(page|route)\.(t|j)sx?$/
RouteRegexApp(relPath) ==
  LET segs == Split(relPath, "/")
      n == Len(segs)
  IN /\ \E i \in 1..(n - 1) : segs[i] = APP
     /\ \E e \in RouteExtensions :
          segs[n] \in { <<"p", "a", "g", "e">> \o e, <<"r", "o", "u", "t", "e">> \o e }

\* ROUTE_REGEX.pages = /(^|\/)pages\/.+\.(t|j)sx?$/
RouteRegexPages(relPath) ==
  LET segs == Split(relPath, "/")
      n == Len(segs)
  IN \E i \in 1..(n - 1) :
       /\ segs[i] = PAGES
       /\ LET rest == JoinWith(SubSeq(segs, i + 1, n), SLASH)
          IN \E e \in RouteExtensions : EndsWith(rest, e) /\ Len(rest) > Len(e)

\* a typing without the exemption of underscore-prefixed pages files
nodeTypeByShapeOnly(env, relPath) ==
  IF relPath = EXTERNAL_ID THEN "external"
  ELSE IF RouteRegexApp(relPath) \/ RouteRegexPages(relPath) THEN "route"
  ELSE IF ExtOf(env, relPath) \in STYLE_EXTENSIONS THEN "style"
  ELSE "module"

nodeTypeFromPath(env, relPath) ==
  LET basename == IF env = "server" THEN PathBasename(relPath) ELSE posixBasename(relPath)
  IN IF relPath = EXTERNAL_ID THEN "external"
     ELSE IF RouteRegexApp(relPath) \/ RouteRegexPages(relPath)
       THEN IF /\ \/ IncludesSub(relPath, SLASH \o PAGES \o SLASH)
                   \/ StartsWith(relPath, PAGES \o SLASH)
               /\ StartsWith(basename, <<"_">>)
              THEN "module"
              ELSE "route"
     ELSE IF ExtOf(env, relPath) \in STYLE_EXTENSIONS THEN "style"
     ELSE "module"

(***************************************************************************)
(* The file system.  A tree is [dirs, files]: the set of directories and   *)
(* a function from each file's absolute path to its content.               *)
(***************************************************************************)
\* fs.stat(p).isFile()
IsFile(tree, p) == p \in DOMAIN tree.files

\* fs.stat(p).isDirectory(); a trailing "/" is accepted on a directory
IsDir(tree, p) ==
  LET q == IF Len(p) > 1 /\ p[Len(p)] = "/" THEN SubSeq(p, 1, Len(p) - 1) ELSE p
  IN q \in tree.dirs

(***************************************************************************)
(* Module resolver, server scan.                                           *)
(***************************************************************************)
\* the first extension, in IMPORT_EXTENSIONS order, for which mk(ext) is an
\* existing file; NULL when there is none
FirstProbe(exists(_), mk(_)) ==
  LET hits == { i \in 1..Len(IMPORT_EXTENSIONS) : exists(mk(IMPORT_EXTENSIONS[i])) }
  IN IF hits = {} THEN NULL
     ELSE mk(IMPORT_EXTENSIONS[CHOOSE i \in hits : \A j \in hits : i <= j])

resolveWithExtensions(tree, basePath) ==
  LET isFile(p) == IsFile(tree, p)
      indexHit == FirstProbe(isFile, LAMBDA ext : PathJoin(<<basePath, INDEX \o ext>>))
      extHit == FirstProbe(isFile, LAMBDA ext : basePath \o ext)
  IN IF basePath = NULL \/ basePath = <<>> THEN NULL
     ELSE IF IsFile(tree, basePath) THEN basePath
     ELSE IF IsDir(tree, basePath) /\ indexHit # NULL THEN indexHit
     ELSE IF PathExtname(basePath) = <<>> /\ extHit # NULL THEN extHit
     ELSE NULL

\* specifier.split('?')[0].split('#')[0]
CleanSpecifier(specifier) == Split(Split(specifier, "?")[1], "#")[1]

HTTP == <<"h", "t", "t", "p">>
ALIAS == <<"@", "/">>

\* the resolver's results: null (the dependency is dropped), external, or
\* an existing file
NoVerdict == [none |-> TRUE, external |-> FALSE, resolved |-> NULL]
ExternalVerdict == [none |-> FALSE, external |-> TRUE, resolved |-> NULL]
FileVerdict(resolved) == [none |-> FALSE, external |-> FALSE, resolved |-> resolved]

\* a guard that drops every specifier that is not relative
DroppedUnlessRelative(specifier) == ~StartsWith(specifier, DOT)

\* !specifier || specifier.startsWith('http'): the resolver returns null
Dropped(specifier) == specifier = <<>> \/ StartsWith(specifier, HTTP)

resolveImport(tree, root, fromFile, specifier) ==
  LET cleanSpecifier == CleanSpecifier(specifier)
      targetPath ==
        IF StartsWith(cleanSpecifier, ALIAS)
          THEN PathJoin(<<root, SliceFrom(cleanSpecifier, 2)>>)
        ELSE IF StartsWith(cleanSpecifier, SLASH)
          THEN PathJoin(<<root, SliceFrom(cleanSpecifier, 1)>>)
        ELSE IF StartsWith(cleanSpecifier, DOT)
          THEN PathResolve(PathDirname(fromFile), cleanSpecifier)
        ELSE NULL
      resolved == resolveWithExtensions(tree, targetPath)
  IN IF Dropped(specifier) THEN NoVerdict
     ELSE IF targetPath = NULL THEN ExternalVerdict
     ELSE IF resolved = NULL THEN ExternalVerdict
     ELSE IF ~StartsWith(resolved, root) THEN ExternalVerdict
     ELSE FileVerdict(resolved)

(***************************************************************************)
(* Module resolver, browser scan.                                          *)
(***************************************************************************)
resolveWithExtensionsBrowser(basePath, fileSet, dirSet) ==
  LET isFile(p) == p \in fileSet
      indexHit == FirstProbe(isFile, LAMBDA ext : posixJoin(<<basePath, INDEX \o ext>>))
      extHit == FirstProbe(isFile, LAMBDA ext : basePath \o ext)
  IN IF basePath = NULL \/ basePath = <<>> THEN NULL
     ELSE IF basePath \in fileSet THEN basePath
     ELSE IF basePath \in dirSet /\ indexHit # NULL THEN indexHit
     ELSE IF posixExtname(basePath) = <<>> /\ extHit # NULL THEN extHit
     ELSE NULL

resolveImportBrowser(fromFile, specifier, fileSet, dirSet) ==
  LET cleanSpecifier == CleanSpecifier(specifier)
      known == \/ StartsWith(cleanSpecifier, ALIAS)
               \/ StartsWith(cleanSpecifier, SLASH)
               \/ StartsWith(cleanSpecifier, DOT)
      normalized ==
        IF StartsWith(cleanSpecifier, ALIAS)
          THEN normalizePosixPath(SliceFrom(cleanSpecifier, 2))
        ELSE IF StartsWith(cleanSpecifier, SLASH)
          THEN normalizePosixPath(SliceFrom(cleanSpecifier, 1))
        ELSE normalizePosixPath(posixJoin(<<posixDirname(fromFile), cleanSpecifier>>))
      resolved == resolveWithExtensionsBrowser(normalized.path, fileSet, dirSet)
  IN IF Dropped(specifier) THEN NoVerdict
     ELSE IF ~known THEN ExternalVerdict
     ELSE IF normalized.path = <<>> \/ normalized.escapedRoot THEN ExternalVerdict
     ELSE IF resolved = NULL THEN ExternalVerdict
     ELSE FileVerdict(resolved)

(***************************************************************************)
(* Dependency and symbol extraction.  A file's content is what the parser  *)
(* yields for it: the import-like nodes of its syntax tree in source       *)
(* order (stmts), its export declarations (exports), and, for an ignore    *)
(* file, its lines.                                                        *)
(***************************************************************************)
ScriptNodes ==
  {"ImportDeclaration", "ExportAllDeclaration", "ExportNamedDeclaration",
   "ImportCall", "RequireCall"}

Dependency(specifier, type, statement, imports) ==
  [specifier |-> specifier, type |-> type, statement |-> statement, imports |-> imports]

\* one visited syntax node to its Dependency
DependencyOf(stmt) ==
  IF stmt.node = "ImportDeclaration"
    THEN Dependency(stmt.source, "static", stmt.text, stmt.specifiers)
  ELSE IF stmt.node = "ImportCall"
    THEN Dependency(stmt.source, "dynamic", stmt.text, <<>>)
  ELSE Dependency(stmt.source, "static", stmt.text, <<>>)

AT_IMPORT == <<"@", "i", "m", "p", "o", "r", "t">>
URL_OPEN == <<"u", "r", "l", "(">>
Whitespace == {" ", "\n", "\t"}
Quotes == {"'", "\""}

\* the characters of text at positions a..b that exist
Clip(text, a, b) == SubSeq(text, a, Min(b, Len(text)))

RECURSIVE RunLength(_, _, _, _)
\* how many characters from position `from` on are (inSet) or are not
\* (~inSet) in chars: what \s+ and [^'"]+ consume
RunLength(text, from, chars, inSet) ==
  IF from > Len(text) \/ ((text[from] \in chars) # inSet) THEN 0
  ELSE 1 + RunLength(text, from + 1, chars, inSet)

\* /@import\s+(?:url\()?['"]([^'"]+)['"]/ tried at position i: the
\* position of the closing quote and that of the opening one, or 0
CssMatchAt(text, i, blanks) ==
  IF Clip(text, i, i + 6) # AT_IMPORT \/ blanks = 0 THEN [close |-> 0, open |-> 0]
  ELSE LET afterBlanks == i + 7 + blanks
           open == IF Clip(text, afterBlanks, afterBlanks + 3) = URL_OPEN
                     THEN afterBlanks + 4
                     ELSE afterBlanks
           run == RunLength(text, open + 1, Quotes, FALSE)
       IN IF /\ open <= Len(text)
             /\ text[open] \in Quotes
             /\ run > 0
             /\ open + run + 1 <= Len(text)
            THEN [close |-> open + run + 1, open |-> open]
            ELSE [close |-> 0, open |-> 0]

RECURSIVE CssScan(_, _)
\* the while loop over regex.exec(code): every match from position i on,
\* each as the dependency the loop pushes
CssScan(text, i) ==
  IF i > Len(text) THEN <<>>
  ELSE LET m == CssMatchAt(text, i, RunLength(text, i + 7, Whitespace, TRUE))
       IN IF m.close = 0 THEN CssScan(text, i + 1)
          ELSE <<Dependency(SubSeq(text, m.open + 1, m.close - 1), "style",
                            SubSeq(text, i, m.close), <<>>)>>
               \o CssScan(text, m.close + 1)

\* the text of a style file: its rules, one per line
StyleCode(content) ==
  JoinWith([i \in 1..Len(content.stmts) |-> content.stmts[i].text], <<"\n">>)

\* the dependencies of the script branch
ScriptDependencies(stmts) ==
  [i \in 1..Len(stmts) |-> DependencyOf(stmts[i])]

extractDependencies(env, filePath, content) ==
  (IF ExtOf(env, filePath) \in SCRIPT_EXTENSIONS /\ content.parses
     THEN ScriptDependencies(SelectSeq(content.stmts,
            LAMBDA st : st.node \in ScriptNodes /\ st.source # NULL))
     ELSE <<>>)
  \o
  (IF ExtOf(env, filePath) \in STYLE_EXTENSIONS
     THEN CssScan(StyleCode(content), 1)
     ELSE <<>>)

RECURSIVE AddSymbols(_, _)
\* addSymbol: the first export of each name is kept
AddSymbols(exports, symbols) ==
  IF exports = <<>> THEN symbols
  ELSE AddSymbols(Tail(exports),
                  IF \E i \in 1..Len(symbols) : symbols[i].name = Head(exports).name
                    THEN symbols
                    ELSE Append(symbols, Head(exports)))

extractSymbols(env, filePath, content) ==
  IF ExtOf(env, filePath) \notin SCRIPT_EXTENSIONS THEN <<>>
  ELSE IF ~content.parses THEN <<>>
  ELSE AddSymbols(content.exports, <<>>)

\* fs.readFile(...).catch(() => null) followed by `if (!code)`: true when
\* the file could be read and its text is not empty
CanRead(tree, fullPath) ==
  /\ fullPath \in DOMAIN tree.files
  /\ tree.files[fullPath].read = "ok"

\* browser: `await file?.text()` has no catch, so a file whose handle opens
\* (getFile resolves) but whose text cannot be read rejects the whole
\* call; on the server fs.readFile(...).catch(() => null) covers both
ReadThrows(e, tree, fullPath) ==
  /\ e = "browser"
  /\ fullPath \in DOMAIN tree.files
  /\ tree.files[fullPath].read = "read_fails"

(***************************************************************************)
(* Graph assembly helpers.                                                 *)
(***************************************************************************)
\* a membership test that never finds the key
HasNodeNever(nodeSeq, id) == FALSE

\* Map.prototype.has
HasNode(nodeSeq, id) == \E i \in 1..Len(nodeSeq) : nodeSeq[i].id = id

\* Map.prototype.set on the insertion-ordered node map: an existing key
\* keeps its position and gets the new value, a new key is appended
MapSet(nodeSeq, id, node) ==
  IF HasNode(nodeSeq, id)
    THEN [i \in 1..Len(nodeSeq) |-> IF nodeSeq[i].id = id THEN node ELSE nodeSeq[i]]
    ELSE Append(nodeSeq, node)

FileNode(env, relPath, ignored) ==
  [id |-> relPath, path |-> relPath,
   label |-> IF env = "server" THEN PathBasename(relPath) ELSE posixBasename(relPath),
   type |-> nodeTypeFromPath(env, relPath), ignored |-> ignored,
   symbolKind |-> NULL, parent |-> NULL, displayName |-> NULL]

ExternalNode ==
  [id |-> EXTERNAL_ID, path |-> EXTERNAL_ID,
   label |-> <<"E", "x", "t", "e", "r", "n", "a", "l">>,
   type |-> "external", ignored |-> FALSE,
   symbolKind |-> NULL, parent |-> NULL, displayName |-> NULL]

SymbolId(relPath, name) == relPath \o <<":", ":">> \o name

SymbolNode(relPath, symbol) ==
  [id |-> SymbolId(relPath, symbol.name), path |-> relPath \o <<"#">> \o symbol.name,
   label |-> symbol.name, type |-> "symbol", ignored |-> FALSE,
   symbolKind |-> symbol.kind, parent |-> relPath, displayName |-> symbol.displayName]

\* an edge type as it is spelled inside an edge key
TypeStr(type) ==
  CASE type = "static" -> <<"s", "t", "a", "t", "i", "c">>
    [] type = "dynamic" -> <<"d", "y", "n", "a", "m", "i", "c">>
    [] type = "style" -> <<"s", "t", "y", "l", "e">>
    [] type = "external" -> <<"e", "x", "t", "e", "r", "n", "a", "l">>
    [] type = "contains" -> <<"c", "o", "n", "t", "a", "i", "n", "s">>

BAR == <<"|">>

\* `${relPath}|${symbolId}|contains`
ContainsKey(relPath, symbolId) == relPath \o BAR \o symbolId \o BAR \o TypeStr("contains")

\* `${relPath}|__external__|external|${dep.specifier}`
ExternalEdgeKey(relPath, dep) ==
  relPath \o BAR \o EXTERNAL_ID \o BAR \o TypeStr("external") \o BAR \o dep.specifier

\* `${relPath}|${target}|${type}|${dep.statement ?? ''}`
EdgeKey(relPath, target, type, dep) ==
  relPath \o BAR \o target \o BAR \o TypeStr(type) \o BAR \o dep.statement

\* hashId: a digest of the key (SHA-1 on the server, a 53-bit mix in the
\* browser).  The digest is a function of the key alone; it is written as
\* the digest's name applied to its input.
hashId(env, value) == <<IF env = "server" THEN "sha1" ELSE "cyrb53", value>>

Edge(env, key, source, target, type, statement) ==
  [id |-> hashId(env, key), source |-> source, target |-> target, type |-> type,
   statement |-> statement]

(***************************************************************************)
(* State of one extraction pass.                                           *)
(***************************************************************************)
VARIABLES
  env,           \* "server" (scanProject) or "browser" (scanDirectoryHandle)
  tree,          \* the file system the pass runs on
  opts,          \* [maxFiles, includeExternal, granularity]
  pc,            \* "init", "walk", "symbols", "deps", "done", "failed"
  stack,         \* the active calls of walk(), innermost last
  nodes,         \* Map<string, GraphNode>, in insertion order
  edges,         \* GraphEdge[]
  edgeKeys,      \* Set<string>
  ignoredNodes,  \* GraphNode[]
  symbolMap,     \* the (file, exported name) pairs of symbolMap
  filesToParse,  \* the queued files (server: full paths; browser: the keys
                 \* of fileHandles)
  dirSet,        \* browser: the directories seen by the walk
  totalFiles, ignoredCount, externalCount,
  fileIdx,       \* position of the loop over the queued files
  pending,       \* dependencies of the current file not yet handled
  result,        \* what the call returned or threw
  visited,       \* history: every entry the walk looked at, with its verdict
  resolutions,   \* history: every resolver call with its verdict
  pass,          \* which pass over the tree this is (1 or 2)
  first          \* the result of the first pass, once a second one runs

\* the watch manager (src/unnamed/part_003)
VARIABLES
  watchers,      \* Map<string, WatchEntry>: root -> index of its entry, 0 if none
  entries,       \* every WatchEntry object created so far
  closures,      \* every unsubscribe function returned so far, with its callback
  called,        \* how many times the latest operation called each subscriber's
                 \* callback
  lastEvent      \* the root of the file system event, if the latest operation
                 \* was the watchers' handling of one

\* the page (src/app/page.tsx), in server mode
VARIABLES
  selectedRoot, graphData, loading, showIgnored, showExternal, focusMode,
  selectedNodeId, watchEnabled,
  skipNextScan,  \* skipNextScanRef.current
  watchSource,   \* watchSourceRef.current: the root of the open EventSource
  watchTimer,    \* watchTimerRef.current: the pending timeout with what it captured
  messages,      \* messages of the watch stream not yet delivered to onmessage
  requests,      \* the scan requests in flight
  scanCount,     \* how many scan requests have been issued
  exported,      \* the file the last export downloaded
  importShown    \* history: the file imported last, if nothing that ends its display happened since

\* root detection (detectRepoRoot, src/unnamed/part_002)
VARIABLES
  detectFs,      \* the directories of the file system detectRepoRoot looks at
  inputPath,     \* the argument of the call
  detectPc,      \* "idle", "loop", "done"
  current, prev, \* the loop's variables
  statted,       \* history: the paths given to fs.stat, in order
  repoRoot       \* what the call returned

detectVars == <<detectFs, inputPath, detectPc, current, prev, statted, repoRoot>>

\* one line of an ignore file: its normalisation and one test of the result
VARIABLES
  lineEnv,       \* "server" or "browser": whose normalizeGitignorePattern runs
  lineDir,       \* dirRel: the directory of the ignore file, relative to the root
  lineRaw,       \* rawPattern: the line as read
  linePc,        \* "idle", "raw", "pattern", "tested"
  linePattern,   \* what normalizeGitignorePattern returned
  lineTested,    \* the relative path given to the matcher
  lineMatched    \* whether the rule matched it

lineVars ==
  <<lineEnv, lineDir, lineRaw, linePc, linePattern, lineTested, lineMatched>>

\* the timing of the watch effect's handler of stream messages
VARIABLES
  clock,         \* the time in milliseconds
  timerRef,      \* watchTimerRef.current
  timeouts,      \* the pending setTimeout callbacks: when each is due
  arrivals,      \* how many messages the EventSource has delivered
  waiting,       \* when the oldest change message arrived that no
                 \* re-extraction has followed yet
  fetchStarts    \* history: when each watch-triggered fetchGraph started

debounceVars == <<clock, timerRef, timeouts, arrivals, waiting, fetchStarts>>

\* the event streams of the watch route
VARIABLES
  streams        \* every stream the route created, with what start() set up

streamVars == <<streams>>

restVars == <<detectVars, lineVars, debounceVars, streamVars>>

scanVars ==
  <<env, tree, opts, pc, stack, nodes, edges, edgeKeys, ignoredNodes, symbolMap,
    filesToParse, dirSet, totalFiles, ignoredCount, externalCount, fileIdx,
    pending, result, visited, resolutions, pass, first>>

watchVars == <<watchers, entries, closures, called, lastEvent>>

pageVars ==
  <<selectedRoot, graphData, loading, showIgnored, showExternal, focusMode,
    selectedNodeId, watchEnabled, skipNextScan, watchSource, watchTimer, messages, requests,
    scanCount, exported, importShown>>

vars == <<scanVars, watchVars, pageVars, restVars>>

\* what a call of detectRepoRoot leaves alone
besideDetect == <<scanVars, watchVars, pageVars, lineVars, debounceVars, streamVars>>

\* what the handling of an ignore-file line leaves alone
besideLine == <<scanVars, watchVars, pageVars, detectVars, debounceVars, streamVars>>

\* what the watch effect's message handler and its timeout leave alone
besideDebounce == <<scanVars, watchVars, pageVars, detectVars, lineVars, streamVars>>

\* what the watch route and the watch manager leave alone
besideStream == <<scanVars, pageVars, detectVars, lineVars, debounceVars>>

\* what a caller compares between two passes: outcome, node ids, edge ids;
\* `order` remembers the order in which the pass queued the files
Summary(r, order) ==
  [status |-> r.status,
   nodeIds |-> { r.nodes[i].id : i \in 1..Len(r.nodes) },
   edgeIds |-> { r.edges[i].id : i \in 1..Len(r.edges) },
   order |-> order]

NoSummary == [status |-> "none", nodeIds |-> {}, edgeIds |-> {}, order |-> <<>>]

\* options.root after path.resolve
ROOT == <<"/", "p">>

GITIGNORE == <<".", "g", "i", "t", "i", "g", "n", "o", "r", "e">>

NoResult ==
  [status |-> "none", error |-> "none", limit |-> 0, root |-> <<>>, nodes |-> <<>>,
   edges |-> <<>>, totalFiles |-> 0, ignoredCount |-> 0, externalCount |-> 0]

\* the thrown Error; `limit` is the number the message names
Failure(error, limit) == [NoResult EXCEPT !.status = "error", !.error = error, !.limit = limit]

\* readdir(dir): the entries directly inside dir
Entries(t, dir) ==
  { [name |-> PathBasename(p), isDir |-> FALSE] :
      p \in { q \in DOMAIN t.files : PathDirname(q) = dir } }
  \cup
  { [name |-> PathBasename(p), isDir |-> TRUE] :
      p \in { q \in t.dirs : q # dir /\ PathDirname(q) = dir } }

\* patterns of a directory in which its own ignore file replaces what was
\* inherited
CombinedPatternsReplacing(e, t, dir, relDir, patterns) ==
  LET gitignorePath == PathJoin(<<dir, GITIGNORE>>)
  IN IF CanRead(t, gitignorePath) /\ t.files[gitignorePath].lines # <<>>
       THEN ExtraPatterns(e, relDir, t.files[gitignorePath].lines)
       ELSE patterns

\* the patterns in force inside a directory: the inherited ones followed by
\* those of the directory's own ignore file
CombinedPatterns(e, t, dir, relDir, patterns) ==
  LET gitignorePath == PathJoin(<<dir, GITIGNORE>>)
  IN IF CanRead(t, gitignorePath) /\ t.files[gitignorePath].lines # <<>>
       THEN patterns \o ExtraPatterns(e, relDir, t.files[gitignorePath].lines)
       ELSE patterns

\* the beginning of walk(dir, patterns), up to the loop over the entries
EnterDir(e, t, dir, relDir, patterns) ==
  [dir |-> dir, relDir |-> relDir,
   patterns |-> CombinedPatterns(e, t, dir, relDir, patterns),
   entries |-> Entries(t, dir)]

\* relPath of an entry of the directory whose walk frame is f
RelPathOf(e, f, name) ==
  IF e = "server"
    THEN posixPath(PathRelative(ROOT, PathJoin(<<f.dir, name>>)))
    ELSE IF f.relDir # <<>> THEN f.relDir \o SLASH \o name ELSE name

\* the path the extension test looks at: fullPath on the server, relPath in
\* the browser
FullOrRel(e, f, name) ==
  IF e = "server" THEN PathJoin(<<f.dir, name>>) ELSE RelPathOf(e, f, name)

Top == stack[Len(stack)]

Pop(st) == SubSeq(st, 1, Len(st) - 1)

\* the top frame with one entry taken off its loop
Consumed(entry) ==
  [stack EXCEPT ![Len(stack)].entries = Top.entries \ {entry}]

\* a limit test that already trips on the maxFiles-th file
OverLimitInclusive(count, maxFiles) == count >= maxFiles

\* totalFiles > options.maxFiles
OverLimit(count, maxFiles) == count > maxFiles

ScanVarsInit ==
  /\ pc = "init"
  /\ stack = <<>>
  /\ nodes = <<>>
  /\ edges = <<>>
  /\ edgeKeys = {}
  /\ ignoredNodes = <<>>
  /\ symbolMap = {}
  /\ filesToParse = <<>>
  /\ dirSet = {<<>>}
  /\ totalFiles = 0
  /\ ignoredCount = 0
  /\ externalCount = 0
  /\ fileIdx = 1
  /\ pending = <<>>
  /\ result = NoResult
  /\ visited = {}
  /\ resolutions = {}

(***************************************************************************)
(* Root detection: detectRepoRoot walks up from the resolved input path.   *)
(***************************************************************************)
\* process.cwd() of the server
CWD == <<"/", "p">>

DOT_GIT == <<".", "g", "i", "t">>

\* no call of detectRepoRoot is made
DetectVarsIdle ==
  /\ detectFs = {}
  /\ inputPath = <<>>
  /\ detectPc = "idle"
  /\ current = <<>>
  /\ prev = <<>>
  /\ statted = <<>>
  /\ repoRoot = NULL

\* the walk starts at the parent of the resolved input
StartAtParent(path) == PathDirname(PathResolve(CWD, path))

\* let current = path.resolve(inputPath)
StartOf(path) == PathResolve(CWD, path)

\* fs.stat(gitPath).then((value) => value.isDirectory()).catch(() => false)
exists(fs, gitPath) == gitPath \in fs

\* the call: current and prev get their first values
DetectCall ==
  /\ detectPc = "idle"
  /\ detectPc' = "loop"
  /\ current' = StartOf(inputPath)
  /\ prev' = <<>>
  /\ UNCHANGED <<detectFs, inputPath, statted, repoRoot, besideDetect>>

\* one turn of the loop that finds no .git directory in current
DetectUp ==
  /\ detectPc = "loop"
  /\ current # prev
  /\ ~exists(detectFs, PathJoin(<<current, DOT_GIT>>))
  /\ statted' = Append(statted, PathJoin(<<current, DOT_GIT>>))
  /\ prev' = current
  /\ current' = PathDirname(current)
  /\ UNCHANGED <<detectFs, inputPath, detectPc, repoRoot, besideDetect>>

\* the turn of the loop that finds one: return current
DetectFound ==
  /\ detectPc = "loop"
  /\ current # prev
  /\ exists(detectFs, PathJoin(<<current, DOT_GIT>>))
  /\ statted' = Append(statted, PathJoin(<<current, DOT_GIT>>))
  /\ repoRoot' = current
  /\ detectPc' = "done"
  /\ UNCHANGED <<detectFs, inputPath, current, prev, besideDetect>>

\* the loop ends at the file system root: return null
DetectNone ==
  /\ detectPc = "loop"
  /\ current = prev
  /\ repoRoot' = NULL
  /\ detectPc' = "done"
  /\ UNCHANGED <<detectFs, inputPath, current, prev, statted, besideDetect>>

NextDetect ==
  \/ DetectCall
  \/ DetectUp
  \/ DetectFound
  \/ DetectNone

(***************************************************************************)
(* One line of an ignore file: normalizeGitignorePattern, then the rule    *)
(* it produced tested against one path by the ignore engine.               *)
(***************************************************************************)
LineVarsIdle ==
  /\ lineEnv = "server"
  /\ lineDir = <<>>
  /\ lineRaw = <<>>
  /\ linePc = "idle"
  /\ linePattern = NULL
  /\ lineTested = <<>>
  /\ lineMatched = FALSE

\* the rule without its "!", as the engine matches it
BodyOf(rule) == IF rule # <<>> /\ Head(rule) = "!" THEN Tail(rule) ELSE rule

\* extraPatterns.push(normalizeGitignorePattern(relDir, line))
NormalizeLine ==
  /\ linePc = "raw"
  /\ linePattern' = normalizeGitignorePattern(lineEnv, lineDir, lineRaw)
  /\ linePc' = "pattern"
  /\ UNCHANGED <<lineEnv, lineDir, lineRaw, lineTested, lineMatched, besideLine>>

\* the engine tests the rule against the relative path relPath
TestPath(relPath) ==
  /\ linePc = "pattern"
  /\ lineTested' = relPath
  /\ lineMatched' = (linePattern # NULL /\ RuleMatches(BodyOf(linePattern), relPath))
  /\ linePc' = "tested"
  /\ UNCHANGED <<lineEnv, lineDir, lineRaw, linePattern, besideLine>>

(***************************************************************************)
(* The watch effect's debounce with its timing: source.onmessage and the   *)
(* timeout it sets.  Time advances in steps of Step up to MaxClock, and at  *)
(* most MaxArrivals messages arrive.  A timeout runs when it is due or      *)
(* later.                                                                  *)
(***************************************************************************)
Step == 250
MaxClock == 2000
MaxArrivals == 4

\* setTimeout(..., 500)
WatchDelay == 500

\* watchTimerRef.current = null
NoTimeout == [due |-> -1]

\* no change message is waiting
NoTime == NoTimeout.due

MessageTypes == {"ready", "ping", "change"}

DebounceVarsIdle ==
  /\ clock = 0
  /\ timerRef = NoTimeout
  /\ timeouts = <<>>
  /\ arrivals = 0
  /\ waiting = NoTime
  /\ fetchStarts = <<>>

StreamVarsIdle == streams = <<>>

NeverPending(ref) == FALSE

\* if (watchTimerRef.current) return;
TimerPending(ref) == ref # NoTimeout

\* source.onmessage = () => {...}: nothing while a timeout is pending,
\* otherwise a timeout 500 ms from now is set and kept in watchTimerRef
DebounceMessage(type) ==
  /\ arrivals < MaxArrivals
  /\ clock + WatchDelay <= MaxClock
  /\ arrivals' = arrivals + 1
  /\ waiting' = IF type = "change" /\ waiting = NoTime THEN clock ELSE waiting
  /\ IF TimerPending(timerRef)
       THEN UNCHANGED <<timerRef, timeouts>>
       ELSE /\ timerRef' = [due |-> clock + WatchDelay]
            /\ timeouts' = Append(timeouts, clock + WatchDelay)
  /\ UNCHANGED <<clock, fetchStarts, besideDebounce>>

MessageArrives == \E type \in MessageTypes : DebounceMessage(type)

\* sequence s without its i-th element
RemoveAt(s, i) == SubSeq(s, 1, i - 1) \o SubSeq(s, i + 1, Len(s))

\* the timeout's callback: watchTimerRef.current = null;
\* fetchGraph(selectedRoot)
DebounceTimeout ==
  \E i \in 1..Len(timeouts) :
    /\ timeouts[i] <= clock
    /\ timeouts' = RemoveAt(timeouts, i)
    /\ timerRef' = NoTimeout
    /\ fetchStarts' = Append(fetchStarts, clock)
    /\ waiting' = NoTime
    /\ UNCHANGED <<clock, arrivals, besideDebounce>>

\* time passes
Tick ==
  /\ clock + Step <= MaxClock
  /\ clock' = clock + Step
  /\ UNCHANGED <<timerRef, timeouts, arrivals, waiting, fetchStarts, besideDebounce>>

NextDebounce ==
  \/ MessageArrives
  \/ DebounceTimeout
  \/ Tick

(***************************************************************************)
(* Watch manager: one chokidar watcher per root, shared by the subscribers *)
(* of that root.                                                           *)
(***************************************************************************)
MaxSubscriptions == 3
MaxRepeats == 1

WATCH_P == <<"/", "p">>
WATCH_Q == <<"/", "q">>

\* the roots the callers subscribe to
WatchRoots == {WATCH_P, WATCH_Q}

\* watcher.on('add', notify).on('change', notify)...: the watcher events
\* that notify
WatchedEvents == {"add", "change", "unlink", "addDir", "unlinkDir"}

\* the events a watcher reports for the entries below its root
FsEventKinds == {"add", "change", "unlink", "addDir", "unlinkDir"}

WatchVarsInit ==
  /\ watchers = [r \in WatchRoots |-> 0]
  /\ entries = <<>>
  /\ closures = <<>>
  /\ called = <<>>
  /\ lastEvent = NULL

\* the entry ensureWatcher returns: the registered one, or a new one with
\* a new emitter, a new open watcher and refCount 0
ensureWatcher(root) ==
  IF watchers[root] # 0
    THEN [index |-> watchers[root], all |-> entries]
    ELSE [index |-> Len(entries) + 1,
          all |-> Append(entries,
                         [root |-> root, open |-> TRUE, refCount |-> 0, listeners |-> <<>>])]

\* subscribe(root, onChange); the callback is a new function, as the one
\* the stream route passes is; `throws` says whether calling it throws
subscribe(root, throws) ==
  /\ Len(closures) < MaxSubscriptions
  /\ LET entry == ensureWatcher(root)
     IN /\ watchers' = [watchers EXCEPT ![root] = entry.index]
        /\ entries' = [entry.all EXCEPT
                         ![entry.index].refCount = @ + 1,
                         ![entry.index].listeners = Append(@, Len(closures) + 1)]
        /\ closures' = Append(closures,
                              [root |-> root, entry |-> entry.index,
                               invoked |-> 0, throws |-> throws])
  /\ called' = [c \in 1..(Len(closures) + 1) |-> 0]
  /\ lastEvent' = NULL

\* every listener is removed, whichever callback is named
RemoveEveryListener(listeners, cb) == <<>>

\* emitter.off('change', onChange): the latest registration of the
\* callback is removed, if there is one
RemoveListener(listeners, cb) ==
  IF \E i \in 1..Len(listeners) : listeners[i] = cb
    THEN LET last == CHOOSE i \in 1..Len(listeners) :
                       /\ listeners[i] = cb
                       /\ \A j \in (i + 1)..Len(listeners) : listeners[j] # cb
         IN SubSeq(listeners, 1, last - 1) \o SubSeq(listeners, last + 1, Len(listeners))
    ELSE listeners

RECURSIVE Repeats(_, _)
\* how many calls of unsubscribe functions were not the first call of
\* their function, among the first n functions
Repeats(all, n) ==
  IF n = 0
    THEN 0
    ELSE Repeats(all, n - 1) + (IF all[n].invoked > 1 THEN all[n].invoked - 1 ELSE 0)

\* the last subscriber is gone only below zero
LastGoneBelowZero(refCount) == refCount < 0

\* entry.refCount <= 0
LastGone(refCount) == refCount <= 0

\* the function subscribe returned, called once more: it works on the
\* entry it captured, and deletes whatever the registry holds for the root
unsubscribe(c) ==
  /\ closures[c].invoked = 0 \/ Repeats(closures, Len(closures)) < MaxRepeats
  /\ LET e == closures[c].entry
         refCount == entries[e].refCount - 1
     IN /\ entries' = [entries EXCEPT
                         ![e].refCount = refCount,
                         ![e].listeners = RemoveListener(@, c),
                         ![e].open = IF LastGone(refCount) THEN FALSE ELSE @]
        /\ watchers' = IF LastGone(refCount)
                         THEN [watchers EXCEPT ![closures[c].root] = 0]
                         ELSE watchers
  /\ closures' = [closures EXCEPT ![c].invoked = @ + 1]
  /\ called' = [d \in 1..Len(closures) |-> 0]
  /\ lastEvent' = NULL

\* emitter.emit('change'): the listeners are called in the order they were
\* registered, and a listener that throws ends the emit
Delivered(listeners) ==
  { listeners[i] :
      i \in { j \in 1..Len(listeners) :
                \A k \in 1..(j - 1) : ~closures[listeners[k]].throws } }

\* the open watchers whose emitter an event below `root` reaches with a
\* call of callback c
Notified(root, c) ==
  { e \in 1..Len(entries) :
      /\ entries[e].root = root /\ entries[e].open
      /\ c \in Delivered(entries[e].listeners) }

\* something is added, changed or removed below a root, and the watchers
\* of the root handle the event: notify is the handler of every kind
FsEvent(root) ==
  /\ FsEventKinds \subseteq WatchedEvents
  /\ lastEvent' = root
  /\ called' = [c \in 1..Len(called) |-> Cardinality(Notified(root, c))]
  /\ UNCHANGED <<watchers, entries>>

\* a caller of the watch manager subscribes
Subscribe ==
  /\ \E root \in WatchRoots, throws \in BOOLEAN : subscribe(root, throws)
  /\ UNCHANGED <<scanVars, pageVars, restVars>>

\* a caller calls the function a subscribe returned to it
Unsubscribe ==
  /\ \E c \in 1..Len(closures) : unsubscribe(c)
  /\ UNCHANGED <<scanVars, pageVars, restVars>>

Notify ==
  /\ \E root \in WatchRoots : FsEvent(root)
  /\ UNCHANGED <<closures, scanVars, pageVars, restVars>>

NextWatch ==
  \/ Subscribe
  \/ Unsubscribe
  \/ Notify

(***************************************************************************)
(* The watch route: GET /api/watch answers with an event stream.  start()  *)
(* subscribes to the watch manager, sets the 15 s heartbeat and sends the  *)
(* ready message; it returns a function that clears both, which a          *)
(* ReadableStream never calls (the return value of start is only awaited);  *)
(* cancel() is empty.                                                      *)
(***************************************************************************)
\* controller.enqueue: the message is queued on an open stream; on a
\* cancelled one enqueue throws
enqueue(stream, type) ==
  IF stream.state = "open"
    THEN [stream EXCEPT !.last = type]
    ELSE [stream EXCEPT !.failed = TRUE]

\* GET with a root: new ReadableStream({start, cancel})
OpenStream(root) ==
  /\ subscribe(root, FALSE)
  /\ streams' = Append(streams,
                       enqueue([root |-> root, closure |-> Len(closures) + 1,
                                heartbeat |-> TRUE, state |-> "open",
                                last |-> "none", failed |-> FALSE], "ready"))
  /\ UNCHANGED besideStream

GetWatch == \E root \in WatchRoots : OpenStream(root)

\* the client closes the EventSource or goes away: cancel() {}; from now
\* on the send of this stream throws
CancelStream(i) ==
  /\ streams[i].state = "open"
  /\ streams' = [streams EXCEPT ![i].state = "cancelled"]
  /\ closures' = [closures EXCEPT ![streams[i].closure].throws = TRUE]
  /\ called' = [c \in 1..Len(closures) |-> 0]
  /\ lastEvent' = NULL
  /\ UNCHANGED <<watchers, entries, besideStream>>

ClientCloses == \E i \in 1..Len(streams) : CancelStream(i)

\* the heartbeat interval of a stream fires: send({type: 'ping'})
HeartbeatFires(i) ==
  /\ streams[i].heartbeat
  /\ streams' = [streams EXCEPT ![i] = enqueue(@, "ping")]
  /\ UNCHANGED <<watchVars, besideStream>>

StreamHeartbeat == \E i \in 1..Len(streams) : HeartbeatFires(i)

\* a file system event below a root: the callbacks the emitter calls send
\* the change message on their streams
StreamFsEvent(root) ==
  /\ FsEvent(root)
  /\ streams' = [i \in 1..Len(streams) |->
                   IF Notified(root, streams[i].closure) # {}
                     THEN enqueue(streams[i], "change")
                     ELSE streams[i]]
  /\ UNCHANGED <<closures, besideStream>>

StreamNotify == \E root \in WatchRoots : StreamFsEvent(root)

NextStream ==
  \/ GetWatch
  \/ ClientCloses
  \/ StreamHeartbeat
  \/ StreamNotify

(***************************************************************************)
(* Tree walker.                                                            *)
(***************************************************************************)
\* scanProject / scanDirectoryHandle up to the first call of walk
StartScan ==
  /\ pc = "init"
  /\ IsDir(tree, ROOT)
  /\ pc' = "walk"
  /\ stack' = <<EnterDir(env, tree, ROOT, <<>>, ALWAYS_IGNORE)>>
  /\ UNCHANGED <<env, tree, opts, nodes, edges, edgeKeys, ignoredNodes, symbolMap,
                 filesToParse, dirSet, totalFiles, ignoredCount, externalCount,
                 fileIdx, pending, result, visited, resolutions, pass, first>>
  /\ UNCHANGED <<watchVars, pageVars, restVars>>

\* 'Selected path is not a readable directory.'
RejectRoot ==
  /\ pc = "init"
  /\ ~IsDir(tree, ROOT)
  /\ pc' = "failed"
  /\ result' = Failure("input", 0)
  /\ UNCHANGED <<env, tree, opts, stack, nodes, edges, edgeKeys, ignoredNodes,
                 symbolMap, filesToParse, dirSet, totalFiles, ignoredCount,
                 externalCount, fileIdx, pending, visited, resolutions, pass, first>>
  /\ UNCHANGED <<watchVars, pageVars, restVars>>

\* an ignored-node test that forgets the extension
KeepsIgnoredNodeAnyFile(e, isDir, filePath) == ~isDir

\* !entry.isDirectory() && isSupportedFile(fullPath)
KeepsIgnoredNode(e, isDir, filePath) == ~isDir /\ isSupportedFile(e, filePath)

\* an ignored entry: counted, kept as an ignored node when it is a
\* supported file, never descended into
WalkIgnored ==
  /\ pc = "walk" /\ stack # <<>>
  /\ \E entry \in Top.entries :
       LET relPath == RelPathOf(env, Top, entry.name)
       IN /\ relPath # <<>>
          /\ Ignores(Top.patterns, relPath)
          /\ ignoredCount' = ignoredCount + 1
          /\ ignoredNodes' =
               IF KeepsIgnoredNode(env, entry.isDir, FullOrRel(env, Top, entry.name))
                 THEN Append(ignoredNodes, FileNode(env, relPath, TRUE))
                 ELSE ignoredNodes
          /\ stack' = Consumed(entry)
          /\ visited' = visited \cup {[path |-> relPath, isDir |-> entry.isDir, ignored |-> TRUE]}
  /\ UNCHANGED <<env, tree, opts, pc, nodes, edges, edgeKeys, symbolMap, filesToParse,
                 dirSet, totalFiles, externalCount, fileIdx, pending, result,
                 resolutions, pass, first>>
  /\ UNCHANGED <<watchVars, pageVars, restVars>>

\* a directory that is not ignored: walk(fullPath, combinedPatterns)
WalkDescend ==
  /\ pc = "walk" /\ stack # <<>>
  /\ \E entry \in Top.entries :
       LET relPath == RelPathOf(env, Top, entry.name)
           fullPath == PathJoin(<<Top.dir, entry.name>>)
       IN /\ relPath # <<>>
          /\ ~Ignores(Top.patterns, relPath)
          /\ entry.isDir
          /\ stack' = Append(Consumed(entry),
                             EnterDir(env, tree, fullPath, relPath, Top.patterns))
          /\ dirSet' = IF env = "browser" THEN dirSet \cup {relPath} ELSE dirSet
          /\ visited' = visited \cup {[path |-> relPath, isDir |-> TRUE, ignored |-> FALSE]}
  /\ UNCHANGED <<env, tree, opts, pc, nodes, edges, edgeKeys, ignoredNodes, symbolMap,
                 filesToParse, totalFiles, ignoredCount, externalCount, fileIdx,
                 pending, result, resolutions, pass, first>>
  /\ UNCHANGED <<watchVars, pageVars, restVars>>

\* a file that is not ignored and keeps the count within the limit
WalkFile ==
  /\ pc = "walk" /\ stack # <<>>
  /\ \E entry \in Top.entries :
       LET relPath == RelPathOf(env, Top, entry.name)
           fullPath == PathJoin(<<Top.dir, entry.name>>)
       IN /\ relPath # <<>>
          /\ ~Ignores(Top.patterns, relPath)
          /\ ~entry.isDir
          /\ ~OverLimit(totalFiles + 1, opts.maxFiles)
          /\ totalFiles' = totalFiles + 1
          /\ IF isSupportedFile(env, FullOrRel(env, Top, entry.name))
               THEN /\ nodes' = MapSet(nodes, relPath, FileNode(env, relPath, FALSE))
                    /\ filesToParse' =
                         Append(filesToParse, IF env = "server" THEN fullPath ELSE relPath)
               ELSE UNCHANGED <<nodes, filesToParse>>
          /\ stack' = Consumed(entry)
          /\ visited' = visited \cup {[path |-> relPath, isDir |-> FALSE, ignored |-> FALSE]}
  /\ UNCHANGED <<env, tree, opts, pc, edges, edgeKeys, ignoredNodes, symbolMap, dirSet,
                 ignoredCount, externalCount, fileIdx, pending, result, resolutions,
                 pass, first>>
  /\ UNCHANGED <<watchVars, pageVars, restVars>>

\* a file that is not ignored and takes the count over the limit: the
\* Error propagates out of every active walk() and out of the scan
WalkOverLimit ==
  /\ pc = "walk" /\ stack # <<>>
  /\ \E entry \in Top.entries :
       LET relPath == RelPathOf(env, Top, entry.name)
       IN /\ relPath # <<>>
          /\ ~Ignores(Top.patterns, relPath)
          /\ ~entry.isDir
          /\ OverLimit(totalFiles + 1, opts.maxFiles)
          /\ totalFiles' = totalFiles + 1
          /\ visited' = visited \cup {[path |-> relPath, isDir |-> FALSE, ignored |-> FALSE]}
  /\ stack' = <<>>
  /\ pc' = "failed"
  /\ result' = Failure("capacity", opts.maxFiles)
  /\ UNCHANGED <<env, tree, opts, nodes, edges, edgeKeys, ignoredNodes, symbolMap,
                 filesToParse, dirSet, ignoredCount, externalCount, fileIdx, pending,
                 resolutions, pass, first>>
  /\ UNCHANGED <<watchVars, pageVars, restVars>>

\* the loop of an inner walk() is over: back to the caller's loop
WalkReturn ==
  /\ pc = "walk" /\ Len(stack) > 1
  /\ Top.entries = {}
  /\ stack' = Pop(stack)
  /\ UNCHANGED <<env, tree, opts, pc, nodes, edges, edgeKeys, ignoredNodes, symbolMap,
                 filesToParse, dirSet, totalFiles, ignoredCount, externalCount,
                 fileIdx, pending, result, visited, resolutions, pass, first>>
  /\ UNCHANGED <<watchVars, pageVars, restVars>>

RECURSIVE SetAll(_, _)
\* for (const ignoredNode of ignoredNodes) nodes.set(ignoredNode.id, ignoredNode)
SetAll(nodeSeq, extra) ==
  IF extra = <<>> THEN nodeSeq
  ELSE SetAll(MapSet(nodeSeq, Head(extra).id, Head(extra)), Tail(extra))

\* walk(root) is over: the ignored nodes join the node map and the loops
\* over the queued files begin
WalkDone ==
  /\ pc = "walk" /\ Len(stack) = 1
  /\ Top.entries = {}
  /\ stack' = <<>>
  /\ nodes' = SetAll(nodes, ignoredNodes)
  /\ pc' = IF opts.granularity = "symbol" THEN "symbols" ELSE "deps"
  /\ UNCHANGED <<env, tree, opts, edges, edgeKeys, ignoredNodes, symbolMap,
                 filesToParse, dirSet, totalFiles, ignoredCount, externalCount,
                 fileIdx, pending, result, visited, resolutions, pass, first>>
  /\ UNCHANGED <<watchVars, pageVars, restVars>>

(***************************************************************************)
(* Symbol pass (symbol granularity only).                                  *)
(***************************************************************************)
\* relPath of a queued file
QueuedRel(e, queued) ==
  IF e = "server" THEN posixPath(PathRelative(ROOT, queued)) ELSE queued

\* where a queued file is read from
QueuedFull(e, queued) ==
  IF e = "server" THEN queued ELSE PathJoin(<<ROOT, queued>>)

RECURSIVE AddSymbolNodes(_, _, _)
AddSymbolNodes(nodeSeq, relPath, symbols) ==
  IF symbols = <<>> THEN nodeSeq
  ELSE LET symbolId == SymbolId(relPath, Head(symbols).name)
       IN AddSymbolNodes(IF ~HasNode(nodeSeq, symbolId)
                           THEN MapSet(nodeSeq, symbolId, SymbolNode(relPath, Head(symbols)))
                           ELSE nodeSeq,
                         relPath, Tail(symbols))

RECURSIVE AddContainsEdges(_, _, _, _)
\* acc = [edges, keys]
AddContainsEdges(e, acc, relPath, symbols) ==
  IF symbols = <<>> THEN acc
  ELSE LET symbolId == SymbolId(relPath, Head(symbols).name)
           containsKey == ContainsKey(relPath, symbolId)
       IN AddContainsEdges(e,
            IF containsKey \notin acc.keys
              THEN [edges |-> Append(acc.edges,
                                     Edge(e, containsKey, relPath, symbolId, "contains", NULL)),
                    keys |-> acc.keys \cup {containsKey}]
              ELSE acc,
            relPath, Tail(symbols))

\* one iteration of the loop that collects the exported symbols
SymbolFile ==
  /\ pc = "symbols"
  /\ fileIdx <= Len(filesToParse)
  /\ ~ReadThrows(env, tree, QueuedFull(env, filesToParse[fileIdx]))
  /\ LET queued == filesToParse[fileIdx]
         relPath == QueuedRel(env, queued)
         fullPath == QueuedFull(env, queued)
         symbols == IF CanRead(tree, fullPath)
                      THEN extractSymbols(env, queued, tree.files[fullPath])
                      ELSE <<>>
         acc == AddContainsEdges(env, [edges |-> edges, keys |-> edgeKeys], relPath, symbols)
     IN /\ nodes' = AddSymbolNodes(nodes, relPath, symbols)
        /\ edges' = acc.edges
        /\ edgeKeys' = acc.keys
        /\ symbolMap' = symbolMap \cup
                        { [file |-> relPath, name |-> symbols[i].name] : i \in 1..Len(symbols) }
  /\ fileIdx' = fileIdx + 1
  /\ UNCHANGED <<env, tree, opts, pc, stack, ignoredNodes, filesToParse, dirSet,
                 totalFiles, ignoredCount, externalCount, pending, result, visited,
                 resolutions, pass, first>>
  /\ UNCHANGED <<watchVars, pageVars, restVars>>

\* the symbol loop is over; the dependency loop starts from the first file
SymbolsDone ==
  /\ pc = "symbols"
  /\ fileIdx > Len(filesToParse)
  /\ pc' = "deps"
  /\ fileIdx' = 1
  /\ UNCHANGED <<env, tree, opts, stack, nodes, edges, edgeKeys, ignoredNodes,
                 symbolMap, filesToParse, dirSet, totalFiles, ignoredCount,
                 externalCount, pending, result, visited, resolutions, pass, first>>
  /\ UNCHANGED <<watchVars, pageVars, restVars>>

(***************************************************************************)
(* Dependency pass.                                                        *)
(***************************************************************************)
\* the resolver of the running scan
Resolve(e, t, queued, specifier, files) ==
  IF e = "server"
    THEN resolveImport(t, ROOT, queued, specifier)
    ELSE resolveImportBrowser(queued, specifier, files, dirSet)

\* browser: fileSet = new Set(fileHandles.keys())
FileSet == { filesToParse[i] : i \in 1..Len(filesToParse) }

\* the loop moves to the next file once the current one has no
\* dependency left
AfterDep(rest) ==
  /\ pending' = rest
  /\ fileIdx' = IF rest = <<>> THEN fileIdx + 1 ELSE fileIdx

\* a queued file is read and its dependencies extracted
DepOpen ==
  /\ pc = "deps"
  /\ pending = <<>>
  /\ fileIdx <= Len(filesToParse)
  /\ ~ReadThrows(env, tree, QueuedFull(env, filesToParse[fileIdx]))
  /\ LET queued == filesToParse[fileIdx]
         fullPath == QueuedFull(env, queued)
         deps == IF CanRead(tree, fullPath)
                   THEN extractDependencies(env, queued, tree.files[fullPath])
                   ELSE <<>>
     IN AfterDep(deps)
  /\ UNCHANGED <<env, tree, opts, pc, stack, nodes, edges, edgeKeys, ignoredNodes,
                 symbolMap, filesToParse, dirSet, totalFiles, ignoredCount,
                 externalCount, result, visited, resolutions, pass, first>>
  /\ UNCHANGED <<watchVars, pageVars, restVars>>

\* `if (!resolved) continue`: an empty or http specifier
DepDropped ==
  /\ pc = "deps"
  /\ pending # <<>>
  /\ LET queued == filesToParse[fileIdx]
         dep == Head(pending)
         verdict == Resolve(env, tree, queued, dep.specifier, FileSet)
     IN /\ verdict.none
        /\ resolutions' = resolutions \cup
             {[from |-> QueuedRel(env, queued), specifier |-> dep.specifier,
               external |-> FALSE, target |-> NULL]}
  /\ AfterDep(Tail(pending))
  /\ UNCHANGED <<env, tree, opts, pc, stack, nodes, edges, edgeKeys, ignoredNodes,
                 symbolMap, filesToParse, dirSet, totalFiles, ignoredCount,
                 externalCount, result, visited, pass, first>>
  /\ UNCHANGED <<watchVars, pageVars, restVars>>

\* a count that only moves when external references are shown
CountedExternalWhenShown(count, includeExternal) ==
  IF includeExternal THEN count + 1 ELSE count

\* externalCount += 1, before the includeExternal test
CountedExternal(count, includeExternal) == count + 1

\* a dependency with the external verdict
DepExternal ==
  /\ pc = "deps"
  /\ pending # <<>>
  /\ LET queued == filesToParse[fileIdx]
         relPath == QueuedRel(env, queued)
         dep == Head(pending)
         verdict == Resolve(env, tree, queued, dep.specifier, FileSet)
         edgeKey == ExternalEdgeKey(relPath, dep)
     IN /\ verdict.external
        /\ externalCount' = CountedExternal(externalCount, opts.includeExternal)
        /\ resolutions' = resolutions \cup
             {[from |-> relPath, specifier |-> dep.specifier,
               external |-> TRUE, target |-> NULL]}
        /\ IF ~opts.includeExternal
             THEN UNCHANGED <<nodes, edges, edgeKeys>>
             ELSE /\ nodes' = IF ~HasNode(nodes, EXTERNAL_ID)
                                THEN MapSet(nodes, EXTERNAL_ID, ExternalNode)
                                ELSE nodes
                  /\ IF edgeKey \in edgeKeys
                       THEN UNCHANGED <<edges, edgeKeys>>
                       ELSE /\ edgeKeys' = edgeKeys \cup {edgeKey}
                            /\ edges' = Append(edges,
                                 Edge(env, edgeKey, relPath, EXTERNAL_ID, "external",
                                      dep.statement))
  /\ AfterDep(Tail(pending))
  /\ UNCHANGED <<env, tree, opts, pc, stack, ignoredNodes, symbolMap, filesToParse,
                 dirSet, totalFiles, ignoredCount, result, visited, pass, first>>
  /\ UNCHANGED <<watchVars, pageVars, restVars>>

\* a symbol table that only knows the files the dependency loop has reached
SymbolTableSoFar ==
  { sym \in symbolMap :
      \E i \in 1..Min(fileIdx, Len(filesToParse)) :
        QueuedRel(env, filesToParse[i]) = sym.file }

\* symbolMap as the dependency loop sees it: complete, because the symbol
\* loop has run over every queued file before
SymbolTable == symbolMap

RECURSIVE SymbolEdges(_, _, _, _, _, _)
\* the loop over dep.imports; acc = [edges, keys, created]
SymbolEdges(e, acc, relPath, targetRel, dep, bindings) ==
  IF bindings = <<>> THEN acc
  ELSE LET binding == Head(bindings)
           importName == IF binding.kind = "default"
                           THEN <<"d", "e", "f", "a", "u", "l", "t">>
                           ELSE binding.imported
           symbolId == SymbolId(targetRel, importName)
           edgeKey == EdgeKey(relPath, symbolId, dep.type, dep)
           skip == \/ binding.kind = "namespace"
                   \/ [file |-> targetRel, name |-> importName] \notin SymbolTable
                   \/ edgeKey \in acc.keys
       IN SymbolEdges(e,
            IF skip THEN acc
            ELSE [edges |-> Append(acc.edges,
                                   Edge(e, edgeKey, relPath, symbolId, dep.type,
                                        SliceTo(dep.statement, StatementLimit))),
                  keys |-> acc.keys \cup {edgeKey},
                  created |-> TRUE],
            relPath, targetRel, dep, Tail(bindings))

\* the node map left as it is
WithoutTarget(e, nodeSeq, targetRel) == nodeSeq

\* the node map after `if (!nodes.has(targetRel)) nodes.set(targetRel, ...)`
WithTarget(e, nodeSeq, targetRel) ==
  IF ~HasNode(nodeSeq, targetRel)
    THEN MapSet(nodeSeq, targetRel, FileNode(e, targetRel, FALSE))
    ELSE nodeSeq

\* the type of a file-level edge: style when the target is a style file
FileEdgeType(e, targetRel, dep) ==
  IF ExtOf(e, targetRel) \in STYLE_EXTENSIONS THEN "style" ELSE dep.type

\* relPath of the file a verdict names
TargetRelOf(e, verdict) ==
  IF e = "server"
    THEN posixPath(PathRelative(ROOT, verdict.resolved))
    ELSE verdict.resolved

\* the file-level edge, unless a symbol edge was created or the key is known
FileEdge(e, acc, relPath, targetRel, edgeType, edgeKey, dep) ==
  IF acc.created \/ edgeKey \in acc.keys
    THEN acc
    ELSE [edges |-> Append(acc.edges,
                           Edge(e, edgeKey, relPath, targetRel, edgeType,
                                SliceTo(dep.statement, StatementLimit))),
          keys |-> acc.keys \cup {edgeKey},
          created |-> acc.created]

\* edgeType and edgeKey of the file-level edge
FileEdgeOfType(e, acc, relPath, targetRel, edgeType, dep) ==
  FileEdge(e, acc, relPath, targetRel, edgeType,
           EdgeKey(relPath, targetRel, edgeType, dep), dep)

\* the edges one resolved dependency adds: symbol-level edges when the
\* granularity asks for them and the import has bindings, else (or when
\* none was created) the file-level edge
EdgesAfter(e, acc0, relPath, targetRel, dep, trySymbols) ==
  FileEdgeOfType(e,
    IF trySymbols
      THEN SymbolEdges(e, acc0, relPath, targetRel, dep, dep.imports)
      ELSE acc0,
    relPath, targetRel, FileEdgeType(e, targetRel, dep), dep)

\* the loop body once the dependency is resolved to targetRel
LinkTarget(relPath, dep, targetRel) ==
  LET acc == EdgesAfter(env, [edges |-> edges, keys |-> edgeKeys, created |-> FALSE],
                        relPath, targetRel, dep,
                        opts.granularity = "symbol" /\ Len(dep.imports) > 0)
  IN /\ resolutions' = resolutions \cup
          {[from |-> relPath, specifier |-> dep.specifier,
            external |-> FALSE, target |-> targetRel]}
     /\ nodes' = WithTarget(env, nodes, targetRel)
     /\ edges' = acc.edges
     /\ edgeKeys' = acc.keys

\* a dependency resolved to a file: the target node, then symbol-level
\* edges or a file-level edge
DepResolved ==
  /\ pc = "deps"
  /\ pending # <<>>
  /\ LET verdict == Resolve(env, tree, filesToParse[fileIdx], Head(pending).specifier, FileSet)
     IN /\ ~verdict.none /\ ~verdict.external
        /\ LinkTarget(QueuedRel(env, filesToParse[fileIdx]), Head(pending),
                      TargetRelOf(env, verdict))
  /\ AfterDep(Tail(pending))
  /\ UNCHANGED <<env, tree, opts, pc, stack, ignoredNodes, symbolMap, filesToParse,
                 dirSet, totalFiles, ignoredCount, externalCount, result, visited,
                 pass, first>>
  /\ UNCHANGED <<watchVars, pageVars, restVars>>

\* the text of a queued file cannot be read and the rejection leaves the
\* call: the symbol loop or the dependency loop ends the pass
ReadAbort ==
  /\ pc \in {"symbols", "deps"}
  /\ pending = <<>>
  /\ fileIdx <= Len(filesToParse)
  /\ ReadThrows(env, tree, QueuedFull(env, filesToParse[fileIdx]))
  /\ pc' = "failed"
  /\ result' = Failure("read", 0)
  /\ UNCHANGED <<env, tree, opts, stack, nodes, edges, edgeKeys, ignoredNodes,
                 symbolMap, filesToParse, dirSet, totalFiles, ignoredCount,
                 externalCount, fileIdx, pending, visited, resolutions, pass, first>>
  /\ UNCHANGED <<watchVars, pageVars, restVars>>

\* the root the returned GraphData names
RootLabel(e) == IF e = "server" THEN ROOT ELSE PathBasename(ROOT)

\* return { root, nodes: Array.from(nodes.values()), edges, ... }
Finish ==
  /\ pc = "deps"
  /\ pending = <<>>
  /\ fileIdx > Len(filesToParse)
  /\ pc' = "done"
  /\ result' = [NoResult EXCEPT !.status = "graph", !.root = RootLabel(env),
                                !.nodes = nodes, !.edges = edges,
                                !.totalFiles = totalFiles,
                                !.ignoredCount = ignoredCount,
                                !.externalCount = externalCount]
  /\ UNCHANGED <<env, tree, opts, stack, nodes, edges, edgeKeys, ignoredNodes,
                 symbolMap, filesToParse, dirSet, totalFiles, ignoredCount,
                 externalCount, fileIdx, pending, visited, resolutions, pass, first>>
  /\ UNCHANGED <<watchVars, pageVars, restVars>>

(***************************************************************************)
(* Inputs: the trees and options the passes are run on.                    *)
(***************************************************************************)
A_TS == <<"a", ".", "t", "s">>
B_TS == <<"b", ".", "t", "s">>
C_TS == <<"c", ".", "t", "s">>
D_TS == <<"d", ".", "t", "s">>
X_TS == <<"x", ".", "t", "s">>
INDEX_TS == <<"i", "n", "d", "e", "x", ".", "t", "s">>
M_JS == <<"m", ".", "j", "s">>
DS_STORE == <<".", "D", "S", "_", "S", "t", "o", "r", "e">>
NODE_MODULES == <<"n", "o", "d", "e", "_", "m", "o", "d", "u", "l", "e", "s">>
SUB == <<"s", "u", "b">>
SIB == <<"s", "i", "b">>
A_DIR == <<"a">>
X_DIR == <<"x">>
SPEC_B == <<".", "/", "b">>
SPEC_X == <<".", "/", "x">>
SPEC_ESCAPE == <<".", ".", "/", "p", "2", "/", "x">>
SPEC_REACT == <<"r", "e", "a", "c", "t">>
SPEC_HTTP == <<"h", "t", "t", "p", ":", "/", "/", "h", "/", "x", ".", "j", "s">>
SPEC_HTTP_PACKAGE == <<"h", "t", "t", "p">>
SPEC_SUB_C == <<".", "/", "s", "u", "b", "/", "c">>
OUTSIDE_DIR == <<"/", "p", "2">>
OUTSIDE_FILE == <<"/", "p", "2", "/", "x", ".", "t", "s">>
LINE_B == <<"b", ".", "t", "s">>
LINE_SUB == <<"s", "u", "b">>
LINE_KEEP_DS == <<"!", ".", "D", "S", "_", "S", "t", "o", "r", "e">>
LINE_C == <<"c", ".", "t", "s">>
LINE_ANCHORED_C == <<"/", "c", ".", "t", "s">>
LINE_D == <<"d", ".", "t", "s">>
LINE_KEEP_D == <<"!", "d", ".", "t", "s">>
SYM_X == <<"x">>
KIND_CONST == <<"c", "o", "n", "s", "t">>
TXT_IMPORT_B == <<"i", "m", "p", "o", "r", "t", " ", "'", ".", "/", "b", "'">>
TXT_IMPORT_X_B == <<"i", "m", "p", "o", "r", "t", " ", "{", "x", "}", " ", "f", "r", "o", "m", " ", "'", ".", "/", "b", "'">>
TXT_IMPORT_X == <<"i", "m", "p", "o", "r", "t", " ", "'", ".", "/", "x", "'">>
TXT_IMPORT_ESCAPE == <<"i", "m", "p", "o", "r", "t", " ", "'", ".", ".", "/", "p", "2", "/", "x", "'">>
TXT_IMPORT_REACT == <<"i", "m", "p", "o", "r", "t", " ", "r", " ", "f", "r", "o", "m", " ", "'", "r", "e", "a", "c", "t", "'">>
TXT_IMPORT_USE == <<"i", "m", "p", "o", "r", "t", " ", "{", "u", "}", " ", "f", "r", "o", "m", " ", "'", "r", "e", "a", "c", "t", "'">>
TXT_IMPORT_HTTP == <<"i", "m", "p", "o", "r", "t", " ", "'", "h", "t", "t", "p", ":", "/", "/", "h", "/", "x", ".", "j", "s", "'">>
TXT_IMPORT_D_B == <<"i", "m", "p", "o", "r", "t", " ", "d", " ", "f", "r", "o", "m", " ", "'", ".", "/", "b", "'">>
TXT_IMPORT_NS_B == <<"i", "m", "p", "o", "r", "t", " ", "*", " ", "a", "s", " ", "n", " ", "f", "r", "o", "m", " ", "'", ".", "/", "b", "'">>
S_CSS == <<"s", ".", "c", "s", "s">>
T_CSS == <<"t", ".", "c", "s", "s">>
V_CSS == <<"v", ".", "c", "s", "s">>
SPEC_S_CSS == <<".", "/", "s", ".", "c", "s", "s">>
TXT_IMPORT_S == <<"i", "m", "p", "o", "r", "t", " ", "'", ".", "/", "s", ".", "c", "s", "s", "'">>
TXT_DYNAMIC_S == <<"i", "m", "p", "o", "r", "t", "(", "'", ".", "/", "s", ".", "c", "s", "s", "'", ")">>
TXT_REQUIRE_S == <<"r", "e", "q", "u", "i", "r", "e", "(", "'", ".", "/", "s", ".", "c", "s", "s", "'", ")">>
TXT_CSS_STRING_T == <<"@", "i", "m", "p", "o", "r", "t", " ", "\"", ".", "/", "t", ".", "c", "s", "s", "\"", ";">>
TXT_CSS_URL_T == <<"@", "i", "m", "p", "o", "r", "t", " ", "u", "r", "l", "(", "\"", ".", "/", "t", ".", "c", "s", "s", "\"", ")", ";">>
TXT_CSS_BARE_URL_V == <<"@", "i", "m", "p", "o", "r", "t", " ", "u", "r", "l", "(", ".", "/", "v", ".", "c", "s", "s", ")", ";">>
PAGE_TSX == <<"p", "a", "g", "e", ".", "t", "s", "x">>
UNDERSCORE_APP_TSX == <<"_", "a", "p", "p", ".", "t", "s", "x">>
INDEX_TSX == <<"i", "n", "d", "e", "x", ".", "t", "s", "x">>
TXT_IMPORT_HTTP_PACKAGE == <<"i", "m", "p", "o", "r", "t", " ", "h", " ", "f", "r", "o", "m", " ", "'", "h", "t", "t", "p", "'">>
SPEC_C == <<".", "/", "c">>
TXT_IMPORT_C == <<"i", "m", "p", "o", "r", "t", " ", "'", ".", "/", "c", "'">>
TXT_IMPORT_SUB_C == <<"i", "m", "p", "o", "r", "t", " ", "'", ".", "/", "s", "u", "b", "/", "c", "'">>

\* a path inside the root from its segments
In(segs) == ROOT \o SLASH \o JoinWith(segs, SLASH)

\* file contents
Source(stmts, exports) ==
  [read |-> "ok", parses |-> TRUE, lines |-> <<>>, stmts |-> stmts, exports |-> exports]
IgnoreFile(lines) ==
  [read |-> "ok", parses |-> TRUE, lines |-> lines, stmts |-> <<>>, exports |-> <<>>]
Plain == Source(<<>>, <<>>)

\* syntax nodes
Import(source, text, specifiers) ==
  [node |-> "ImportDeclaration", source |-> source, text |-> text,
   specifiers |-> specifiers]
Named(name) == [kind |-> "named", imported |-> name, local |-> name]
Default(name) == [kind |-> "default", imported |-> <<"d", "e", "f", "a", "u", "l", "t">>,
                  local |-> name]
Exported(name, kind) == [name |-> name, kind |-> kind, displayName |-> NULL]
Namespace(name) == [kind |-> "namespace", imported |-> <<"*">>, local |-> name]

\* a.ts imports ./b, b.ts is named by the root ignore file
ScenarioTree ==
  [dirs |-> {ROOT},
   files |-> (In(<<GITIGNORE>>) :> IgnoreFile(<<LINE_B>>))
          @@ (In(<<A_TS>>) :> Source(<<Import(SPEC_B, TXT_IMPORT_B, <<>>)>>, <<>>))
          @@ (In(<<B_TS>>) :> Source(<<>>, <<Exported(SYM_X, KIND_CONST)>>))]

\* a/b.ts imports ./x; a/x.ts, the directory a/x and a/x/index.ts exist or not
ProbeTree(hasFile, hasDir, hasIndex) ==
  [dirs |-> {ROOT, In(<<A_DIR>>)} \cup (IF hasDir THEN {In(<<A_DIR, X_DIR>>)} ELSE {}),
   files |-> (In(<<A_DIR, B_TS>>) :> Source(<<Import(SPEC_X, TXT_IMPORT_X, <<>>)>>, <<>>))
          @@ (IF hasFile THEN In(<<A_DIR, X_TS>>) :> Plain ELSE <<>>)
          @@ (IF hasIndex THEN In(<<A_DIR, X_DIR, INDEX_TS>>) :> Plain ELSE <<>>)]

ProbeTrees ==
  { ProbeTree(c[1], c[2], c[3]) :
      c \in { d \in BOOLEAN \X BOOLEAN \X BOOLEAN : d[3] => d[2] } }

\* a.ts imports a URL, the package http, a file of the sibling directory
\* /p2, a package twice, and b.ts twice
ImportsTree ==
  [dirs |-> {ROOT, OUTSIDE_DIR},
   files |-> (In(<<A_TS>>) :>
                Source(<<Import(SPEC_HTTP, TXT_IMPORT_HTTP, <<>>),
                         Import(SPEC_HTTP_PACKAGE, TXT_IMPORT_HTTP_PACKAGE, <<Default(<<"h">>)>>),
                         Import(SPEC_ESCAPE, TXT_IMPORT_ESCAPE, <<>>),
                         Import(SPEC_REACT, TXT_IMPORT_REACT, <<Default(<<"r">>)>>),
                         Import(SPEC_REACT, TXT_IMPORT_USE, <<Named(<<"u">>)>>),
                         Import(SPEC_B, TXT_IMPORT_B, <<>>),
                         Import(SPEC_B, TXT_IMPORT_X_B, <<Named(SYM_X)>>)>>, <<>>))
          @@ (In(<<B_TS>>) :> Source(<<>>, <<Exported(SYM_X, KIND_CONST)>>))
          @@ (OUTSIDE_FILE :> Plain)]

\* a.ts imports {x} from ./b at top level and once more, with the same
\* text, inside a `declare module` block; it also imports a default that
\* b.ts does not export, and the namespace; b.ts exports x
SymbolsTree ==
  [dirs |-> {ROOT},
   files |-> (In(<<A_TS>>) :>
                Source(<<Import(SPEC_B, TXT_IMPORT_X_B, <<Named(SYM_X)>>),
                         Import(SPEC_B, TXT_IMPORT_X_B, <<Named(SYM_X)>>),
                         Import(SPEC_B, TXT_IMPORT_D_B, <<Default(<<"d">>)>>),
                         Import(SPEC_B, TXT_IMPORT_NS_B, <<Namespace(<<"n">>)>>)>>, <<>>))
          @@ (In(<<B_TS>>) :> Source(<<>>, <<Exported(SYM_X, KIND_CONST)>>))]

\* one rule of a stylesheet
Rule(text) == [node |-> "Rule", source |-> NULL, text |-> text, specifiers |-> <<>>]
Call(node, source, text) ==
  [node |-> node, source |-> source, text |-> text, specifiers |-> <<>>]

\* a.ts reaches s.css by a static import, a dynamic import and a require;
\* s.css imports t.css as a string and inside url("..."), and v.css
\* inside url(...) without quotes
StyleTree ==
  [dirs |-> {ROOT},
   files |-> (In(<<A_TS>>) :>
                Source(<<Import(SPEC_S_CSS, TXT_IMPORT_S, <<>>),
                         Call("ImportCall", SPEC_S_CSS, TXT_DYNAMIC_S),
                         Call("RequireCall", SPEC_S_CSS, TXT_REQUIRE_S)>>, <<>>))
          @@ (In(<<S_CSS>>) :>
                Source(<<Rule(TXT_CSS_STRING_T), Rule(TXT_CSS_URL_T),
                         Rule(TXT_CSS_BARE_URL_V)>>, <<>>))
          @@ (In(<<T_CSS>>) :> Plain)
          @@ (In(<<V_CSS>>) :> Plain)]

\* app/page.tsx, pages/index.tsx and pages/_app.tsx
RoutesTree ==
  [dirs |-> {ROOT, In(<<APP>>), In(<<PAGES>>)},
   files |-> (In(<<APP, PAGE_TSX>>) :> Plain)
          @@ (In(<<PAGES, INDEX_TSX>>) :> Plain)
          @@ (In(<<PAGES, UNDERSCORE_APP_TSX>>) :> Plain)]

\* a.ts imports ./b and ./c; b.ts cannot be read (its handle does not
\* open, or it opens and its text cannot be read); c.ts does not parse
BrokenTree(readOfB) ==
  [dirs |-> {ROOT},
   files |-> (In(<<A_TS>>) :>
                Source(<<Import(SPEC_B, TXT_IMPORT_X_B, <<Named(SYM_X)>>),
                         Import(SPEC_C, TXT_IMPORT_C, <<>>)>>, <<>>))
          @@ (In(<<B_TS>>) :>
                [Source(<<Import(SPEC_C, TXT_IMPORT_C, <<>>)>>, <<Exported(SYM_X, KIND_CONST)>>)
                   EXCEPT !.read = readOfB])
          @@ (In(<<C_TS>>) :>
                [Source(<<Import(SPEC_B, TXT_IMPORT_B, <<>>)>>, <<Exported(SYM_X, KIND_CONST)>>)
                   EXCEPT !.parses = FALSE])]

BrokenTrees == { BrokenTree("open_fails"), BrokenTree("read_fails") }

\* entries of the always-ignore list, an ignored directory with a file
\* below it, and a root ignore file with or without a negation
BuiltinTree(lines) ==
  [dirs |-> {ROOT, In(<<NODE_MODULES>>), In(<<SUB>>)},
   files |-> (In(<<GITIGNORE>>) :> IgnoreFile(lines))
          @@ (In(<<DS_STORE>>) :> Plain)
          @@ (In(<<NODE_MODULES, M_JS>>) :> Plain)
          @@ (In(<<SUB, C_TS>>) :> Plain)
          @@ (In(<<A_TS>>) :> Source(<<Import(SPEC_SUB_C, TXT_IMPORT_SUB_C, <<>>)>>, <<>>))]

BuiltinTrees == { BuiltinTree(<<LINE_SUB>>), BuiltinTree(<<LINE_KEEP_DS, LINE_SUB>>) }

\* the root ignore file names d.ts; sub has its own ignore file (or none),
\* sib has none
NestedTree(lines) ==
  [dirs |-> {ROOT, In(<<SUB>>), In(<<SIB>>)},
   files |-> (In(<<GITIGNORE>>) :> IgnoreFile(<<LINE_D>>))
          @@ (IF lines # <<>> THEN In(<<SUB, GITIGNORE>>) :> IgnoreFile(lines) ELSE <<>>)
          @@ (In(<<SUB, C_TS>>) :> Plain)
          @@ (In(<<SUB, D_TS>>) :> Plain)
          @@ (In(<<SIB, C_TS>>) :> Plain)
          @@ (In(<<SIB, D_TS>>) :> Plain)]

NestedTrees ==
  { NestedTree(<<>>), NestedTree(<<LINE_C>>), NestedTree(<<LINE_ANCHORED_C>>),
    NestedTree(<<LINE_KEEP_D>>) }

\* the selected path is not a directory
NoRootTree == [dirs |-> {}, files |-> <<>>]

Trees ==
  {ScenarioTree, ImportsTree, SymbolsTree, StyleTree, RoutesTree, NoRootTree} \cup BrokenTrees \cup ProbeTrees \cup BuiltinTrees \cup NestedTrees

\* the file limits tried: two small ones around SmallLimit and the
\* client's default
SmallLimit == 3
DefaultMaxFiles == 5000
MaxFilesChoices == {SmallLimit - 1, SmallLimit, DefaultMaxFiles}

Options ==
  [maxFiles : MaxFilesChoices, includeExternal : BOOLEAN, granularity : {"file", "symbol"}]

(***************************************************************************)
(* The page in server mode: the scans it requests, the watch stream it     *)
(* listens to, its filters, and the export and import of a graph file.     *)
(***************************************************************************)
MaxScans == 2
MaxMessages == 1

\* useState(2) of focusDepth
DefaultFocusDepth == 2

\* the roots the user can select
PageRoots == {WATCH_P, WATCH_Q}

NoGraph == [root |-> NULL, nodes |-> <<>>, edges |-> <<>>, totalFiles |-> 0,
            ignoredCount |-> 0, externalCount |-> 0]

\* an edge as the scan builds it for a dependency without statement text
GraphEdgeOf(source, target, type) ==
  Edge("server", source \o BAR \o target, source, target, type, <<>>)

\* the body of a successful /api/scan response: what scanProject returns.
\* Below /p: a.ts -> b.ts -> c.ts -> d.ts, a package import in a.ts and an
\* ignored node_modules; below /q: a.ts alone
GraphFor(root, includeExternal) ==
  IF root = WATCH_P
    THEN [root |-> root,
          nodes |-> <<FileNode("server", A_TS, FALSE), FileNode("server", B_TS, FALSE),
                      FileNode("server", C_TS, FALSE), FileNode("server", D_TS, FALSE),
                      FileNode("server", NODE_MODULES, TRUE)>>
                    \o (IF includeExternal THEN <<ExternalNode>> ELSE <<>>),
          edges |-> <<GraphEdgeOf(A_TS, B_TS, "static"), GraphEdgeOf(B_TS, C_TS, "dynamic"),
                      GraphEdgeOf(C_TS, D_TS, "static")>>
                    \o (IF includeExternal
                          THEN <<GraphEdgeOf(A_TS, EXTERNAL_ID, "external")>>
                          ELSE <<>>),
          totalFiles |-> 4, ignoredCount |-> 1, externalCount |-> 1]
    ELSE [root |-> root,
          nodes |-> <<FileNode("server", A_TS, FALSE)>>,
          edges |-> <<>>,
          totalFiles |-> 1, ignoredCount |-> 0, externalCount |-> 0]

\* the ids one step away from any id of `ids`, along an edge in either
\* direction (buildAdjacency: outgoing and incoming)
Neighbors(edgeSeq, ids) ==
  { edgeSeq[i].target : i \in { j \in 1..Len(edgeSeq) : edgeSeq[j].source \in ids } } \cup
  { edgeSeq[i].source : i \in { j \in 1..Len(edgeSeq) : edgeSeq[j].target \in ids } }

RECURSIVE Allowed(_, _, _, _)
\* the breadth-first search of filterFocus, one level per step: `frontier`
\* holds the queued ids of the current depth
Allowed(edgeSeq, allowed, frontier, depthLeft) ==
  IF depthLeft = 0 \/ frontier = {}
    THEN allowed
    ELSE Allowed(edgeSeq, allowed \cup Neighbors(edgeSeq, frontier),
                 Neighbors(edgeSeq, frontier) \ allowed, depthLeft - 1)

filterFocus(nodeSeq, edgeSeq, focusId, depth) ==
  IF focusId = NULL \/ depth <= 0
    THEN [nodes |-> nodeSeq, edges |-> edgeSeq]
    ELSE [nodes |-> SelectSeq(nodeSeq,
                     LAMBDA n : n.id \in Allowed(edgeSeq, {focusId}, {focusId}, depth)),
          edges |-> SelectSeq(edgeSeq,
                     LAMBDA e : /\ e.source \in Allowed(edgeSeq, {focusId}, {focusId}, depth)
                                /\ e.target \in Allowed(edgeSeq, {focusId}, {focusId}, depth))]

\* filteredGraph before the focus filter
Visible(g, ignoredShown, externalShown) ==
  [nodes |-> SelectSeq(g.nodes,
               LAMBDA n : (ignoredShown \/ ~n.ignored) /\ (externalShown \/ n.type # "external")),
   edges |-> SelectSeq(g.edges,
               LAMBDA e : /\ externalShown \/ e.type # "external"
                          /\ \E i \in 1..Len(g.nodes) :
                               /\ g.nodes[i].id = e.source
                               /\ ignoredShown \/ ~g.nodes[i].ignored
                               /\ externalShown \/ g.nodes[i].type # "external"
                          /\ \E i \in 1..Len(g.nodes) :
                               /\ g.nodes[i].id = e.target
                               /\ ignoredShown \/ ~g.nodes[i].ignored
                               /\ externalShown \/ g.nodes[i].type # "external")]

\* the useMemo of filteredGraph
filteredGraph(g, ignoredShown, externalShown, focus, focusId) ==
  IF g = NoGraph
    THEN [nodes |-> <<>>, edges |-> <<>>]
    ELSE IF focus /\ focusId # NULL
      THEN filterFocus(Visible(g, ignoredShown, externalShown).nodes,
                       Visible(g, ignoredShown, externalShown).edges,
                       focusId, DefaultFocusDepth)
      ELSE Visible(g, ignoredShown, externalShown)

\* the payload of exportJson: the counts and the root of graphData, the
\* nodes and the edges of filteredGraph
payload(g, shown) ==
  [root |-> g.root, nodes |-> shown.nodes, edges |-> shown.edges,
   totalFiles |-> g.totalFiles, ignoredCount |-> g.ignoredCount,
   externalCount |-> g.externalCount]

\* JSON.stringify of an object: its members in the order they were written
Stringify(object) ==
  << <<"root", object.root>>, <<"nodes", object.nodes>>, <<"edges", object.edges>>,
     <<"totalFiles", object.totalFiles>>, <<"ignoredCount", object.ignoredCount>>,
     <<"externalCount", object.externalCount>> >>

\* the value of a member of a parsed document, NULL if it has none
Member(doc, key) ==
  IF \E i \in 1..Len(doc) : doc[i][1] = key
    THEN doc[CHOOSE i \in 1..Len(doc) : doc[i][1] = key][2]
    ELSE NULL

\* JSON.parse of a graph file
Parse(doc) ==
  [root |-> Member(doc, "root"), nodes |-> Member(doc, "nodes"),
   edges |-> Member(doc, "edges"), totalFiles |-> Member(doc, "totalFiles"),
   ignoredCount |-> Member(doc, "ignoredCount"),
   externalCount |-> Member(doc, "externalCount")]

NoFile == <<>>

NoTimer == [root |-> NULL, includeExternal |-> FALSE]

\* graph files saved by earlier sessions
SavedFiles == { Stringify(GraphFor(WATCH_Q, FALSE)) }

PageVarsInit ==
  /\ selectedRoot = NULL
  /\ graphData = NoGraph
  /\ loading = FALSE
  /\ showIgnored = FALSE
  /\ showExternal = FALSE
  /\ focusMode = FALSE
  /\ selectedNodeId = NULL
  /\ watchEnabled = TRUE
  /\ skipNextScan = FALSE
  /\ watchSource = NULL
  /\ watchTimer = NoTimer
  /\ messages = <<>>
  /\ requests = {}
  /\ scanCount = 0
  /\ exported = NoFile
  /\ importShown = NoFile

\* fetchGraph(root) up to the request: the POST to /api/scan is sent with
\* the settings fetchGraph was created with
fetchGraph(root, includeExternal) ==
  /\ scanCount < MaxScans
  /\ scanCount' = scanCount + 1
  /\ requests' = requests \cup
                   {[id |-> scanCount + 1, root |-> root, includeExternal |-> includeExternal]}
  /\ loading' = TRUE

\* the watch effect, cleanup of the previous run included: the open
\* EventSource is closed; with a root and watching enabled a new one is
\* opened, and the route answers it with its ready message
WatchEffect(root, enabled) ==
  /\ watchSource' = IF root # NULL /\ enabled THEN root ELSE NULL
  /\ messages' = IF root # NULL /\ enabled THEN <<"ready">> ELSE <<>>

\* the scan effect: nothing without a root; a raised skipNextScanRef is
\* lowered instead of scanning; otherwise fetchGraph(selectedRoot)
ScanEffect(root, includeExternal, loadingElse) ==
  IF root = NULL
    THEN /\ loading' = loadingElse
         /\ UNCHANGED <<skipNextScan, requests, scanCount>>
    ELSE IF skipNextScan
      THEN /\ skipNextScan' = FALSE
           /\ loading' = loadingElse
           /\ UNCHANGED <<requests, scanCount>>
      ELSE /\ fetchGraph(root, includeExternal)
           /\ UNCHANGED skipNextScan

\* the show-external checkbox: fetchGraph is a new function, so both
\* effects run again
ToggleShowExternal ==
  /\ showExternal' = ~showExternal
  /\ WatchEffect(selectedRoot, watchEnabled)
  /\ ScanEffect(selectedRoot, ~showExternal, loading)
  /\ importShown' = NoFile
  /\ UNCHANGED <<selectedRoot, graphData, showIgnored, focusMode, selectedNodeId,
                 watchEnabled, watchTimer, exported, scanVars, watchVars, restVars>>

\* the watch checkbox
ToggleWatch ==
  /\ watchEnabled' = ~watchEnabled
  /\ WatchEffect(selectedRoot, ~watchEnabled)
  /\ importShown' = NoFile
  /\ UNCHANGED <<selectedRoot, graphData, loading, showIgnored, showExternal, focusMode,
                 selectedNodeId, skipNextScan, watchTimer, requests, scanCount, exported,
                 scanVars, watchVars, restVars>>

\* the checkboxes and clicks that only change what is shown
ChangeFilter ==
  /\ \/ showIgnored' = ~showIgnored /\ UNCHANGED <<focusMode, selectedNodeId>>
     \/ focusMode' = ~focusMode /\ UNCHANGED <<showIgnored, selectedNodeId>>
     \/ /\ selectedNodeId' = IF selectedNodeId = NULL THEN A_TS ELSE NULL
        /\ UNCHANGED <<showIgnored, focusMode>>
  /\ importShown' = NoFile
  /\ UNCHANGED <<selectedRoot, graphData, loading, showExternal, watchEnabled,
                 skipNextScan, watchSource, watchTimer, messages, requests, scanCount,
                 exported, scanVars, watchVars, restVars>>

\* the rebuild button
Rebuild ==
  /\ selectedRoot # NULL
  /\ ~loading
  /\ fetchGraph(selectedRoot, showExternal)
  /\ importShown' = NoFile
  /\ UNCHANGED <<selectedRoot, graphData, showIgnored, showExternal, focusMode,
                 selectedNodeId, watchEnabled, skipNextScan, watchSource, watchTimer,
                 messages, exported, scanVars, watchVars, restVars>>

\* detectRootAndScan with the answer of /api/detect-root: the same root is
\* scanned at once, a new root is selected and the effects run
detectRootAndScan(finalRoot) ==
  /\ ~loading
  /\ IF finalRoot = selectedRoot
       THEN /\ fetchGraph(finalRoot, showExternal)
            /\ UNCHANGED <<selectedRoot, skipNextScan, watchSource, messages>>
       ELSE /\ selectedRoot' = finalRoot
            /\ WatchEffect(finalRoot, watchEnabled)
            /\ ScanEffect(finalRoot, showExternal, TRUE)
  /\ importShown' = NoFile
  /\ UNCHANGED <<graphData, showIgnored, showExternal, focusMode, selectedNodeId,
                 watchEnabled, watchTimer, exported, scanVars, watchVars, restVars>>

SelectFolder == \E finalRoot \in PageRoots : detectRootAndScan(finalRoot)

\* the route's heartbeat
Heartbeat ==
  /\ watchSource # NULL
  /\ Len(messages) < MaxMessages
  /\ messages' = Append(messages, "ping")
  /\ UNCHANGED <<selectedRoot, graphData, loading, showIgnored, showExternal, focusMode,
                 selectedNodeId, watchEnabled, skipNextScan, watchSource, watchTimer,
                 requests, scanCount, exported, importShown, scanVars, watchVars, restVars>>

\* the watcher of the root reports a change and the route sends it on
ChangeNotified ==
  /\ watchSource # NULL
  /\ Len(messages) < MaxMessages
  /\ messages' = Append(messages, "change")
  /\ importShown' = NoFile
  /\ UNCHANGED <<selectedRoot, graphData, loading, showIgnored, showExternal, focusMode,
                 selectedNodeId, watchEnabled, skipNextScan, watchSource, watchTimer,
                 requests, scanCount, exported, scanVars, watchVars, restVars>>

\* source.onmessage: whatever the message says, a timeout is set unless
\* one is pending; it keeps the root and the fetchGraph of its effect
OnMessage ==
  /\ messages # <<>>
  /\ messages' = Tail(messages)
  /\ watchTimer' = IF watchTimer # NoTimer
                     THEN watchTimer
                     ELSE [root |-> watchSource, includeExternal |-> showExternal]
  /\ UNCHANGED <<selectedRoot, graphData, loading, showIgnored, showExternal, focusMode,
                 selectedNodeId, watchEnabled, skipNextScan, watchSource, requests,
                 scanCount, exported, importShown, scanVars, watchVars, restVars>>

\* the timeout set by onmessage runs
TimerFires ==
  /\ watchTimer # NoTimer
  /\ watchTimer' = NoTimer
  /\ fetchGraph(watchTimer.root, watchTimer.includeExternal)
  /\ UNCHANGED <<selectedRoot, graphData, showIgnored, showExternal, focusMode,
                 selectedNodeId, watchEnabled, skipNextScan, watchSource, messages,
                 exported, importShown, scanVars, watchVars, restVars>>

\* a scan request is answered: setGraphData(data), setLoading(false)
ScanResponse ==
  \E request \in requests :
    /\ requests' = requests \ {request}
    /\ graphData' = GraphFor(request.root, request.includeExternal)
    /\ loading' = FALSE
    /\ UNCHANGED <<selectedRoot, showIgnored, showExternal, focusMode, selectedNodeId,
                   watchEnabled, skipNextScan, watchSource, watchTimer, messages,
                   scanCount, exported, importShown, scanVars, watchVars, restVars>>

\* the export button: the payload is downloaded as a file
exportJson ==
  /\ graphData # NoGraph
  /\ exported' = Stringify(payload(graphData,
                     filteredGraph(graphData, showIgnored, showExternal, focusMode,
                                   selectedNodeId)))
  /\ UNCHANGED <<selectedRoot, graphData, loading, showIgnored, showExternal, focusMode,
                 selectedNodeId, watchEnabled, skipNextScan, watchSource, watchTimer,
                 messages, requests, scanCount, importShown, scanVars, watchVars, restVars>>

\* parsed.root || selectedRoot
RootAfterImport(parsed) == IF parsed.root \in {NULL, <<>>} THEN selectedRoot ELSE parsed.root

\* reader.onload of importJson: the file becomes the graph data,
\* skipNextScanRef is raised and the file's root is selected; when that
\* changes the selected root the effects run, and the scan effect lowers
\* skipNextScanRef
importJson(file) ==
  /\ graphData' = Parse(file)
  /\ selectedRoot' = RootAfterImport(Parse(file))
  /\ IF RootAfterImport(Parse(file)) # selectedRoot
       THEN /\ WatchEffect(RootAfterImport(Parse(file)), watchEnabled)
            /\ skipNextScan' = FALSE
       ELSE /\ skipNextScan' = TRUE
            /\ UNCHANGED <<watchSource, messages>>
  /\ importShown' = file
  /\ UNCHANGED <<loading, showIgnored, showExternal, focusMode, selectedNodeId,
                 watchEnabled, watchTimer, requests, scanCount, exported, scanVars,
                 watchVars, restVars>>

ImportFile ==
  \E file \in SavedFiles \cup (IF exported = NoFile THEN {} ELSE {exported}) :
    importJson(file)

\* the page with its filters left as they are
NextPage ==
  \/ ToggleShowExternal
  \/ ToggleWatch
  \/ Rebuild
  \/ SelectFolder
  \/ Heartbeat
  \/ ChangeNotified
  \/ OnMessage
  \/ TimerFires
  \/ ScanResponse
  \/ exportJson
  \/ ImportFile

\* the page with its filters, with watching switched off
NextExport ==
  \/ ToggleShowExternal
  \/ ChangeFilter
  \/ SelectFolder
  \/ ScanResponse
  \/ exportJson
  \/ ImportFile

(***************************************************************************)
(* Specification: one pass over one tree.                                  *)
(***************************************************************************)
\* nothing but the specification's own part of the program runs
RestVarsIdle == DetectVarsIdle /\ LineVarsIdle /\ DebounceVarsIdle /\ StreamVarsIdle

Init ==
  /\ env \in {"server", "browser"}
  /\ tree \in Trees
  /\ opts \in Options
  /\ ScanVarsInit
  /\ pass = 1
  /\ first = NoSummary
  /\ WatchVarsInit
  /\ PageVarsInit
  /\ RestVarsIdle

Next ==
  \/ StartScan
  \/ RejectRoot
  \/ WalkIgnored
  \/ WalkDescend
  \/ WalkFile
  \/ WalkOverLimit
  \/ WalkReturn
  \/ WalkDone
  \/ SymbolFile
  \/ SymbolsDone
  \/ DepOpen
  \/ DepDropped
  \/ DepExternal
  \/ DepResolved
  \/ ReadAbort
  \/ Finish

Spec == Init /\ [][Next]_vars

(***************************************************************************)
(* Specification: two passes over the same, unmodified tree with the same  *)
(* options.                                                                *)
(***************************************************************************)
\* the caller starts a second extraction once the first has returned or
\* thrown; nothing of the first pass is kept by the engine
Rescan ==
  /\ pass = 1
  /\ pc \in {"done", "failed"}
  /\ first' = Summary(result, filesToParse)
  /\ pass' = 2
  /\ pc' = "init"
  /\ stack' = <<>>
  /\ nodes' = <<>>
  /\ edges' = <<>>
  /\ edgeKeys' = {}
  /\ ignoredNodes' = <<>>
  /\ symbolMap' = {}
  /\ filesToParse' = <<>>
  /\ dirSet' = {<<>>}
  /\ totalFiles' = 0
  /\ ignoredCount' = 0
  /\ externalCount' = 0
  /\ fileIdx' = 1
  /\ pending' = <<>>
  /\ result' = NoResult
  /\ visited' = {}
  /\ resolutions' = {}
  /\ UNCHANGED <<env, tree, opts>>
  /\ UNCHANGED <<watchVars, pageVars, restVars>>

NextTwice == Next \/ Rescan

\* what the two scans are compared on: the outcome, every node's id, type
\* and ignored flag, every edge's ends and type, the three counters, and
\* the verdict the resolver gave each dependency
Comparison(r, verdicts) ==
  [status |-> r.status,
   error |-> r.error,
   nodes |-> { [id |-> r.nodes[i].id, type |-> r.nodes[i].type,
                ignored |-> r.nodes[i].ignored] : i \in 1..Len(r.nodes) },
   edges |-> { <<r.edges[i].source, r.edges[i].target, r.edges[i].type>> :
                i \in 1..Len(r.edges) },
   totalFiles |-> r.totalFiles,
   ignoredCount |-> r.ignoredCount,
   externalCount |-> r.externalCount,
   verdicts |-> verdicts]

\* the tree scanned by scanProject is scanned again by
\* scanDirectoryHandle, with the same options
RescanInBrowser ==
  /\ pass = 1
  /\ env = "server"
  /\ pc \in {"done", "failed"}
  /\ first' = Comparison(result, resolutions)
  /\ pass' = 2
  /\ env' = "browser"
  /\ pc' = "init"
  /\ stack' = <<>>
  /\ nodes' = <<>>
  /\ edges' = <<>>
  /\ edgeKeys' = {}
  /\ ignoredNodes' = <<>>
  /\ symbolMap' = {}
  /\ filesToParse' = <<>>
  /\ dirSet' = {<<>>}
  /\ totalFiles' = 0
  /\ ignoredCount' = 0
  /\ externalCount' = 0
  /\ fileIdx' = 1
  /\ pending' = <<>>
  /\ result' = NoResult
  /\ visited' = {}
  /\ resolutions' = {}
  /\ UNCHANGED <<tree, opts>>
  /\ UNCHANGED <<watchVars, pageVars, restVars>>

NextBoth == Next \/ RescanInBrowser

\* the trees both scans are run on
BothTrees ==
  {ScenarioTree, ImportsTree, SymbolsTree, StyleTree, RoutesTree, NoRootTree,
   NestedTree(<<LINE_C>>), BuiltinTree(<<LINE_KEEP_DS, LINE_SUB>>),
   BrokenTree("read_fails")}

InitBoth ==
  /\ env = "server"
  /\ tree \in BothTrees
  /\ opts \in Options
  /\ ScanVarsInit
  /\ pass = 1
  /\ first = NoSummary
  /\ WatchVarsInit
  /\ PageVarsInit
  /\ RestVarsIdle

SpecBoth == InitBoth /\ [][NextBoth]_vars

\* the trees the two passes are run on: imports of every verdict, symbols,
\* ignore files in the root and below it, and a missing root
TwiceTrees ==
  {ScenarioTree, ImportsTree, SymbolsTree, NoRootTree, NestedTree(<<LINE_C>>),
   BuiltinTree(<<LINE_KEEP_DS, LINE_SUB>>), BrokenTree("read_fails")}

InitTwice ==
  /\ env \in {"server", "browser"}
  /\ tree \in TwiceTrees
  /\ opts \in Options
  /\ ScanVarsInit
  /\ pass = 1
  /\ first = NoSummary
  /\ WatchVarsInit
  /\ PageVarsInit
  /\ RestVarsIdle

SpecTwice == InitTwice /\ [][NextTwice]_vars

(***************************************************************************)
(* Specifications of the watch manager and of the page: no pass runs.      *)
(***************************************************************************)
IdleScan ==
  /\ env = "server"
  /\ tree = NoRootTree
  /\ opts = [maxFiles |-> DefaultMaxFiles, includeExternal |-> FALSE, granularity |-> "file"]
  /\ ScanVarsInit
  /\ pass = 1
  /\ first = NoSummary

InitWatch == IdleScan /\ WatchVarsInit /\ PageVarsInit /\ RestVarsIdle

SpecWatch == InitWatch /\ [][NextWatch]_vars

InitPage == IdleScan /\ WatchVarsInit /\ PageVarsInit /\ RestVarsIdle

SpecPage == InitPage /\ [][NextPage]_vars

\* PageVarsInit but for watchEnabled
PageVarsInitUnwatched ==
  /\ selectedRoot = NULL
  /\ graphData = NoGraph
  /\ loading = FALSE
  /\ showIgnored = FALSE
  /\ showExternal = FALSE
  /\ focusMode = FALSE
  /\ selectedNodeId = NULL
  /\ watchEnabled = FALSE
  /\ skipNextScan = FALSE
  /\ watchSource = NULL
  /\ watchTimer = NoTimer
  /\ messages = <<>>
  /\ requests = {}
  /\ scanCount = 0
  /\ exported = NoFile
  /\ importShown = NoFile

InitExport == IdleScan /\ WatchVarsInit /\ PageVarsInitUnwatched /\ RestVarsIdle

SpecExport == InitExport /\ [][NextExport]_vars

(***************************************************************************)
(* Specification: one call of detectRepoRoot.                              *)
(***************************************************************************)
P_S == <<"/", "p", "/", "s">>
P_S_T == <<"/", "p", "/", "s", "/", "t">>

\* the places a .git directory can be: the file system root, /p, /p/s,
\* /p/s/t, and /q, which is no ancestor of any input
GitPlaces ==
  { <<"/", ".", "g", "i", "t">>, CWD \o SLASH \o DOT_GIT, P_S \o SLASH \o DOT_GIT,
    P_S_T \o SLASH \o DOT_GIT, <<"/", "q", "/", ".", "g", "i", "t">> }

\* absolute, with a trailing separator, with dot segments, relative to the
\* working directory, the working directory itself, and the root
DetectInputs ==
  { P_S_T, P_S_T \o SLASH, <<"/", "p", "/", "s", "/", ".", ".", "/", "s", "/", "t">>,
    <<"s", "/", "t">>, <<"s">>, <<>>, <<".", ".">>, SLASH }

InitDetect ==
  /\ IdleScan /\ WatchVarsInit /\ PageVarsInit
  /\ LineVarsIdle /\ DebounceVarsIdle /\ StreamVarsIdle
  /\ detectFs \in SUBSET GitPlaces
  /\ inputPath \in DetectInputs
  /\ detectPc = "idle"
  /\ current = <<>>
  /\ prev = <<>>
  /\ statted = <<>>
  /\ repoRoot = NULL

\* the await of each turn resolves, so the call goes on until it returns:
\* weak fairness of NextDetect.  A step of NextDetect is possible exactly
\* while the call has not returned, and every step changes detectPc or
\* statted, so the condition is written with that enabling condition.
DetectFair == []<>(detectPc = "done") \/ []<><<NextDetect>>_vars

SpecDetect == InitDetect /\ [][NextDetect]_vars /\ DetectFair

(***************************************************************************)
(* Ignore-file lines: every line of LineInputs declared in every directory *)
(* of LineDirs, normalised by either scan and tested against one path of   *)
(* LinePaths.  A path that names a directory ends in "/".                   *)
(***************************************************************************)
IGNORE_D == <<"d">>
IGNORE_D_E == <<"d", "/", "e">>

LineDirs == {<<>>, IGNORE_D, IGNORE_D_E}

LineInputs ==
  { <<"n">>, <<"n", "/">>, <<"!", "n">>, <<"!", "n", "/">>, <<" ", "n", " ">>,
    <<" ", "n", "/">> }

LinePaths ==
  { <<"n">>, <<"n", "/">>,
    <<"d", "/", "n">>, <<"d", "/", "n", "/">>,
    <<"d", "/", "e", "/", "n">>, <<"d", "/", "e", "/", "n", "/">>,
    <<"d", "/", "e", "/", "f", "/", "n", "/">>,
    <<"d", "/", "f", "/", "n">>,
    <<"e", "/", "n">>, <<"x", "/", "n", "/">>,
    <<"d", "/", "m">>, <<"d", "/", "e", "/", "n", "n">>,
    <<"d", "/", "n", "/", "k">> }

InitLine ==
  /\ IdleScan /\ WatchVarsInit /\ PageVarsInit
  /\ DetectVarsIdle /\ DebounceVarsIdle /\ StreamVarsIdle
  /\ lineEnv \in {"server", "browser"}
  /\ lineDir \in LineDirs
  /\ lineRaw \in LineInputs
  /\ linePc = "raw"
  /\ linePattern = NULL
  /\ lineTested = <<>>
  /\ lineMatched = FALSE

TestSomePath == \E relPath \in LinePaths : TestPath(relPath)

NextLine ==
  \/ NormalizeLine
  \/ TestSomePath

SpecLine == InitLine /\ [][NextLine]_vars

(***************************************************************************)
(* The debounce of the watch effect while one root is watched: the timeout *)
(* callbacks run (the event loop is not blocked for ever) and time passes. *)
(***************************************************************************)
InitDebounce ==
  /\ IdleScan /\ WatchVarsInit /\ PageVarsInit
  /\ DetectVarsIdle /\ LineVarsIdle /\ StreamVarsIdle
  /\ DebounceVarsIdle

SpecDebounce ==
  InitDebounce /\ [][NextDebounce]_vars /\ WF_vars(DebounceTimeout) /\ WF_vars(Tick)

(***************************************************************************)
(* The watch route with its clients: streams are opened and cancelled,     *)
(* heartbeats fire and the watchers report events.  Timers and watchers    *)
(* that are set keep firing.                                               *)
(***************************************************************************)
InitStream ==
  /\ IdleScan /\ WatchVarsInit /\ PageVarsInit
  /\ DetectVarsIdle /\ LineVarsIdle /\ DebounceVarsIdle
  /\ streams = <<>>

SpecStream ==
  InitStream /\ [][NextStream]_vars /\ WF_vars(StreamHeartbeat) /\ WF_vars(ClientCloses)

(***************************************************************************)
(* What the tree itself says about its entries, computed from the tree     *)
(* and not from the walk's variables.                                      *)
(***************************************************************************)
\* root-relative path of an absolute path below the root
RelOf(p) == SubSeq(p, Len(ROOT) + 2, Len(p))

InsideRoot(p) == StartsWith(p, ROOT \o SLASH)

RECURSIVE PatternsAt(_, _, _)
\* the patterns in force in a directory: the built-in list, then the ignore
\* files of the root, ..., the directory itself, each normalized against
\* the directory that holds it
PatternsAt(e, t, dir) ==
  IF dir = ROOT
    THEN CombinedPatterns(e, t, ROOT, <<>>, ALWAYS_IGNORE)
    ELSE CombinedPatterns(e, t, dir, RelOf(dir), PatternsAt(e, t, PathDirname(dir)))

\* is the entry at absolute path p ignored where the walk meets it
IgnoredByRules(e, t, p) == Ignores(PatternsAt(e, t, PathDirname(p)), RelOf(p))

\* the directories strictly between the root and p
DirsAbove(t, p) == { d \in t.dirs : InsideRoot(d) /\ StartsWith(p, d \o SLASH) }

\* p lies below a directory that is ignored
BelowIgnoredDir(e, t, p) == \E d \in DirsAbove(t, p) : IgnoredByRules(e, t, d)

AllEntries(t) == { p \in DOMAIN t.files \cup t.dirs : InsideRoot(p) }

\* the files the walk has to count: not ignored, not below an ignored directory
CountedFiles(e, t) ==
  { p \in DOMAIN t.files :
      InsideRoot(p) /\ ~BelowIgnoredDir(e, t, p) /\ ~IgnoredByRules(e, t, p) }

VisitedPaths == { v.path : v \in visited }

CapacityFailure == pc = "failed" /\ result.error = "capacity"

(***************************************************************************)
(* Claims.                                                                 *)
(***************************************************************************)
\* C1: every non-ignored file the walk meets is counted, whatever its
\* extension; the pass fails as soon as the count exceeds maxFiles, the
\* error names maxFiles and carries no graph, nothing is visited after the
\* file that broke the limit, and a tree with at most maxFiles non-ignored
\* files (exactly maxFiles included) succeeds.
C1_CapacityAbort ==
  /\ totalFiles = Cardinality({ v \in visited : ~v.isDir /\ ~v.ignored })
  /\ totalFiles <= opts.maxFiles + 1
  /\ totalFiles > opts.maxFiles =>
       /\ CapacityFailure
       /\ stack = <<>>
       /\ result.status = "error"
       /\ result.limit = opts.maxFiles
       /\ result.nodes = <<>> /\ result.edges = <<>>
       /\ Len(nodes) <= opts.maxFiles
  /\ CapacityFailure =>
       /\ totalFiles = opts.maxFiles + 1
       /\ Cardinality(CountedFiles(env, tree)) > opts.maxFiles
  /\ pc = "done" =>
       /\ result.status = "graph"
       /\ totalFiles = Cardinality(CountedFiles(env, tree))
       /\ totalFiles <= opts.maxFiles

\* the limit is broken while entries of the tree are still unvisited
C1_Witness ==
  /\ CapacityFailure
  /\ opts.maxFiles = SmallLimit
  /\ \E p \in CountedFiles(env, tree) : RelOf(p) \notin VisitedPaths

\* a tree with exactly maxFiles non-ignored files has been scanned
C1_WitnessExact ==
  /\ pc = "done"
  /\ totalFiles = opts.maxFiles

\* the dependencies the extractor finds in one queued file
DepsOfQueued(queued) ==
  LET fullPath == QueuedFull(env, queued)
      deps == IF CanRead(tree, fullPath)
                THEN extractDependencies(env, queued, tree.files[fullPath])
                ELSE <<>>
  IN { [queued |-> queued, dep |-> deps[j]] : j \in 1..Len(deps) }

\* the queued files with the dependencies the extractor finds in them
QueuedDeps == UNION { DepsOfQueued(q) : q \in FileSet }

\* the target a dependency's verdict gives, as a node id
TargetOf(verdict) ==
  IF verdict.external THEN EXTERNAL_ID
  ELSE IF env = "server" THEN posixPath(PathRelative(ROOT, verdict.resolved))
  ELSE verdict.resolved

EdgeSet(g) == { g.edges[i] : i \in 1..Len(g.edges) }
NodeSet(g) == { g.nodes[i] : i \in 1..Len(g.nodes) }

\* C2: in a returned graph no two edges agree on source, target, type and
\* statement, and dependencies are collapsed only when they agree on all
\* four: every dependency of a file (file granularity; external ones when
\* includeExternal is set) has an edge carrying its own statement, so two
\* statements reaching one target give two edges.
C2_EdgeKeyIsFourTuple ==
  pc = "done" =>
    /\ \A i, j \in 1..Len(result.edges) :
         ( /\ result.edges[i].source = result.edges[j].source
           /\ result.edges[i].target = result.edges[j].target
           /\ result.edges[i].type = result.edges[j].type
           /\ result.edges[i].statement = result.edges[j].statement ) => i = j
    /\ \A qd \in QueuedDeps :
         LET verdict == Resolve(env, tree, qd.queued, qd.dep.specifier, FileSet)
             wanted == IF verdict.external THEN opts.includeExternal
                       ELSE ~verdict.none /\ opts.granularity = "file"
         IN wanted =>
              \E e \in EdgeSet(result) :
                /\ e.source = QueuedRel(env, qd.queued)
                /\ e.target = TargetOf(verdict)
                /\ e.statement = SliceTo(qd.dep.statement, StatementLimit)

\* no two entries of a node list share an id, and at most one is external
UniqueIds(nodeSeq) ==
  /\ \A i, j \in 1..Len(nodeSeq) : nodeSeq[i].id = nodeSeq[j].id => i = j
  /\ Cardinality({ i \in 1..Len(nodeSeq) : nodeSeq[i].type = "external" }) <= 1
  /\ \A i \in 1..Len(nodeSeq) : nodeSeq[i].type = "external" <=> nodeSeq[i].id = EXTERNAL_ID

\* C3: for every tree and every combination of includeExternal and
\* granularity, the returned graph has no two nodes with the same id and at
\* most one node of type external, whose id is __external__.
C3_UniqueNodeIds ==
  /\ UniqueIds(nodes)
  /\ pc = "done" => UniqueIds(result.nodes) /\ result.nodes = nodes

\* a graph was returned in which several dependencies were external and a
\* file was the target of several dependencies
C3_Witness ==
  /\ pc = "done"
  /\ externalCount >= 2
  /\ \E n \in NodeSet(result) : n.type = "external"
  /\ \E e1, e2 \in EdgeSet(result) :
       e1 # e2 /\ e1.target = e2.target /\ e1.type = "static"

\* position of a file in the queue of the running pass (0 when not queued)
QueuePos(relPath) ==
  IF \E i \in 1..Len(filesToParse) : QueuedRel(env, filesToParse[i]) = relPath
    THEN CHOOSE i \in 1..Len(filesToParse) : QueuedRel(env, filesToParse[i]) = relPath
    ELSE 0

\* C4: two passes over the same unmodified tree with the same options give
\* the same outcome, the same set of node ids and the same set of edge
\* ids, in file and in symbol granularity, whatever order the entries were
\* enumerated in and the files processed in by either pass.
C4_SecondPassAgrees ==
  (pass = 2 /\ pc \in {"done", "failed"}) =>
    /\ Summary(result, <<>>).status = first.status
    /\ Summary(result, <<>>).nodeIds = first.nodeIds
    /\ Summary(result, <<>>).edgeIds = first.edgeIds

\* the second pass queued the files in another order than the first, in
\* symbol granularity, and an import was retargeted to a symbol of a file
\* that the dependency loop reached only later
C4_Witness ==
  /\ pass = 2 /\ pc = "done"
  /\ opts.granularity = "symbol"
  /\ first.status = "graph"
  /\ first.order # filesToParse
  /\ \E e \in EdgeSet(result) :
       /\ e.type = "static"
       /\ \E n \in NodeSet(result) :
            /\ n.id = e.target /\ n.type = "symbol"
            /\ QueuePos(e.source) < QueuePos(n.parent)

\* a root-relative path that does not step out of the root
StaysInside(relPath) == \A i \in 1..Len(Split(relPath, "/")) : Split(relPath, "/")[i] # DOTDOT

\* the file a node id names lies in the tree below the root
NamesFileInRoot(id) == StaysInside(id) /\ PathJoin(<<ROOT, id>>) \in DOMAIN tree.files

\* C5: whenever the path the resolver computes for a specifier lies outside
\* the scan root the verdict is external, even when a file exists there;
\* no node or edge of the graph refers to a path outside the root.
C5_OutsideRootIsExternal ==
  /\ \A r \in resolutions : (~r.external /\ r.target # NULL) => NamesFileInRoot(r.target)
  /\ \A i \in 1..Len(nodes) :
       nodes[i].type \in {"route", "module", "style"} => NamesFileInRoot(nodes[i].id)
  /\ \A i \in 1..Len(edges) :
       /\ NamesFileInRoot(edges[i].source)
       /\ edges[i].type \in {"static", "dynamic", "style"} =>
            StaysInside(edges[i].target)

\* C6: `./x` written in a/b.ts resolves to a/x.ts if that file exists,
\* otherwise to a/x/index.ts if that exists, otherwise it is external,
\* whichever of a/x.ts, the directory a/x and a/x/index.ts exist.
C6_FileBeforeIndex ==
  \A r \in resolutions :
    (r.from = JoinWith(<<A_DIR, B_TS>>, SLASH) /\ r.specifier = SPEC_X) =>
      IF In(<<A_DIR, X_TS>>) \in DOMAIN tree.files
        THEN ~r.external /\ r.target = JoinWith(<<A_DIR, X_TS>>, SLASH)
      ELSE IF In(<<A_DIR, X_DIR, INDEX_TS>>) \in DOMAIN tree.files
        THEN ~r.external /\ r.target = JoinWith(<<A_DIR, X_DIR, INDEX_TS>>, SLASH)
      ELSE r.external

\* the edges of a graph from one node to another
EdgesBetween(g, source, target) ==
  { i \in 1..Len(g.edges) : g.edges[i].source = source /\ g.edges[i].target = target }

\* C7: an import that resolves to an ignored file with a supported
\* extension yields an edge to that file's node, which carries
\* ignored = true: for root {a.ts with `import './b'`, b.ts, .gitignore
\* containing `b.ts`}, file granularity returns a.ts typed module, b.ts
\* typed module with ignored = true, exactly one static edge a.ts -> b.ts
\* and ignoredCount = 1, in the server scan and in the browser scan.
C7_EdgeToIgnoredFile ==
  (tree = ScenarioTree /\ opts.granularity = "file" /\ pc = "done") =>
    /\ \E n \in NodeSet(result) : n.id = A_TS /\ n.type = "module" /\ ~n.ignored
    /\ \E n \in NodeSet(result) : n.id = B_TS /\ n.type = "module" /\ n.ignored
    /\ Cardinality(EdgesBetween(result, A_TS, B_TS)) = 1
    /\ \A i \in EdgesBetween(result, A_TS, B_TS) : result.edges[i].type = "static"
    /\ result.ignoredCount = 1

\* an entry the built-in list names: a directory for a pattern ending in
\* "/", a file for the others
NamedByBuiltinList(relPath, isDir) ==
  \E i \in 1..Len(ALWAYS_IGNORE) :
    LET pat == ALWAYS_IGNORE[i]
    IN IF EndsWith(pat, SLASH)
         THEN isDir /\ PathBasename(relPath) = SubSeq(pat, 1, Len(pat) - 1)
         ELSE ~isDir /\ PathBasename(relPath) = pat

\* C8: every entry named by the built-in always-ignore list is treated as
\* ignored wherever the walk meets it, whatever the ignore files of the
\* tree contain, negations included.
C8_BuiltinListAlwaysIgnored ==
  \A v \in visited : NamedByBuiltinList(v.path, v.isDir) => v.ignored

\* the directories of a tree that hold a non-empty ignore file
DirsWithIgnoreFile(t) ==
  { d \in t.dirs : /\ d = ROOT \/ InsideRoot(d)
                   /\ CanRead(t, PathJoin(<<d, GITIGNORE>>))
                   /\ t.files[PathJoin(<<d, GITIGNORE>>)].lines # <<>> }

\* the tree with the ignore file of directory d emptied (an empty ignore
\* file contributes nothing)
WithoutIgnoreFile(t, d) ==
  [t EXCEPT !.files[PathJoin(<<d, GITIGNORE>>)] = IgnoreFile(<<>>)]

IsPrefix(a, b) == Len(a) <= Len(b) /\ SubSeq(b, 1, Len(a)) = a

\* C9: the ignore file of a directory D changes the verdict only of paths
\* under D: every entry the walk meets outside D gets the verdict it would
\* get if D had no ignore file; and inside D the inherited patterns stay in
\* force, D's own patterns being added after them.
C9_IgnoreFileScope ==
  /\ \A v \in visited :
       /\ v.ignored = IgnoredByRules(env, tree, PathJoin(<<ROOT, v.path>>))
       /\ \A d \in DirsWithIgnoreFile(tree) :
            ~StartsWith(PathJoin(<<ROOT, v.path>>), d \o SLASH) =>
              v.ignored = IgnoredByRules(env, WithoutIgnoreFile(tree, d),
                                         PathJoin(<<ROOT, v.path>>))
  /\ \A k \in 1..Len(stack) :
       /\ IsPrefix(ALWAYS_IGNORE, stack[k].patterns)
       /\ k > 1 => IsPrefix(stack[k - 1].patterns, stack[k].patterns)
       /\ stack[k].patterns = PatternsAt(env, tree, stack[k].dir)

\* sub's ignore file names c.ts and the root's names d.ts: sub/c.ts and
\* sub/d.ts are ignored, sib/c.ts is not, sib/d.ts is
C9_Witness ==
  /\ In(<<SUB>>) \in DirsWithIgnoreFile(tree)
  /\ [path |-> JoinWith(<<SUB, C_TS>>, SLASH), isDir |-> FALSE, ignored |-> TRUE] \in visited
  /\ [path |-> JoinWith(<<SUB, D_TS>>, SLASH), isDir |-> FALSE, ignored |-> TRUE] \in visited
  /\ [path |-> JoinWith(<<SIB, C_TS>>, SLASH), isDir |-> FALSE, ignored |-> FALSE] \in visited
  /\ [path |-> JoinWith(<<SIB, D_TS>>, SLASH), isDir |-> FALSE, ignored |-> TRUE] \in visited

\* the ignored files with a supported extension that the walk has met
IgnoredSupported ==
  { v.path : v \in { w \in visited : w.ignored /\ ~w.isDir /\
                                     ExtOf(env, w.path) \in SUPPORTED_EXTENSIONS } }

SeqIds(nodeSeq) == { nodeSeq[i].id : i \in 1..Len(nodeSeq) }

\* C10: an ignored directory is counted once in ignoredCount and never
\* descended into, so nothing beneath it is counted or recorded as a node
\* by the traversal; an ignored file increments ignoredCount, is not
\* counted in totalFiles, and is recorded as a node with ignored = true
\* exactly when its extension is supported.
C10_IgnoredEntries ==
  /\ ignoredCount = Cardinality({ v \in visited : v.ignored })
  /\ totalFiles = Cardinality({ v \in visited : ~v.ignored /\ ~v.isDir })
  /\ \A v, w \in visited :
       (w.isDir /\ w.ignored) => ~StartsWith(v.path, w.path \o SLASH)
  /\ pc = "walk" => SeqIds(nodes) \cup SeqIds(ignoredNodes) \subseteq VisitedPaths
  /\ SeqIds(ignoredNodes) = IgnoredSupported
  /\ \A i \in 1..Len(ignoredNodes) : ignoredNodes[i].ignored
  /\ \A i \in 1..Len(nodes) : nodes[i].ignored => nodes[i].id \in IgnoredSupported
  /\ pc \in {"symbols", "deps", "done"} =>
       \A id \in IgnoredSupported : \E i \in 1..Len(nodes) : nodes[i].id = id /\ nodes[i].ignored
  /\ pc = "done" =>
       /\ result.ignoredCount = Cardinality({ v \in visited : v.ignored })
       /\ result.totalFiles = Cardinality(CountedFiles(env, tree))
       /\ { n.id : n \in { m \in NodeSet(result) : m.ignored } } = IgnoredSupported

\* a pass that has met an ignored directory with a file beneath it, an
\* ignored file with a supported extension and one without
C10_Witness ==
  /\ pc = "done"
  /\ [path |-> SUB, isDir |-> TRUE, ignored |-> TRUE] \in visited
  /\ In(<<SUB, C_TS>>) \in DOMAIN tree.files
  /\ JoinWith(<<NODE_MODULES, M_JS>>, SLASH) \in IgnoredSupported
  /\ [path |-> DS_STORE, isDir |-> FALSE, ignored |-> TRUE] \in visited
  /\ DS_STORE \notin SeqIds(result.nodes)

\* the exported names the symbol loop knows for a file: those of a
\* queued, readable script file
KnownExports(relPath) ==
  UNION { IF QueuedRel(env, q) = relPath /\ CanRead(tree, QueuedFull(env, q))
            THEN { sym.name : sym \in
                     { extractSymbols(env, q, tree.files[QueuedFull(env, q)])[i] :
                         i \in 1..Len(extractSymbols(env, q, tree.files[QueuedFull(env, q)])) } }
            ELSE {} : q \in FileSet }

\* the name a binding asks the target for
ImportName(binding) ==
  IF binding.kind = "default" THEN <<"d", "e", "f", "a", "u", "l", "t">> ELSE binding.imported

\* the names among a dependency's bindings that the target exports
MatchedNames(dep, targetRel) ==
  { ImportName(dep.imports[i]) :
      i \in { j \in 1..Len(dep.imports) :
                /\ dep.imports[j].kind # "namespace"
                /\ ImportName(dep.imports[j]) \in KnownExports(targetRel) } }

\* the dependencies with bindings that resolve to a file of the tree
BoundDeps ==
  { qd \in QueuedDeps :
      /\ Len(qd.dep.imports) > 0
      /\ ~Resolve(env, tree, qd.queued, qd.dep.specifier, FileSet).none
      /\ ~Resolve(env, tree, qd.queued, qd.dep.specifier, FileSet).external }

\* the edges a bound dependency must have: one per matched name, and the
\* file-level one exactly when no name matched
HasItsEdges(qd, targetRel) ==
  /\ \A name \in MatchedNames(qd.dep, targetRel) :
       \E e \in EdgeSet(result) :
         /\ e.source = QueuedRel(env, qd.queued)
         /\ e.target = SymbolId(targetRel, name)
         /\ e.type = qd.dep.type
         /\ e.statement = SliceTo(qd.dep.statement, StatementLimit)
  /\ (MatchedNames(qd.dep, targetRel) = {}) <=>
       \E e \in EdgeSet(result) :
         /\ e.source = QueuedRel(env, qd.queued)
         /\ e.target = targetRel
         /\ e.statement = SliceTo(qd.dep.statement, StatementLimit)

\* C11: in symbol mode every dependency with bindings that resolves to an
\* in-tree file has an edge to <target>::<name> for each non-namespace
\* binding whose name the target exports, and has a file-level edge to the
\* target if and only if none of its bindings matched.
C11_SymbolRetargeting ==
  (pc = "done" /\ opts.granularity = "symbol") =>
    \A qd \in BoundDeps :
      HasItsEdges(qd, TargetOf(Resolve(env, tree, qd.queued, qd.dep.specifier, FileSet)))

\* the same statement of C11 on the trees in which no file repeats a
\* statement text
C11_OnDistinctStatements ==
  tree # SymbolsTree => C11_SymbolRetargeting

\* the queued files whose text cannot be had or does not parse
BrokenFiles ==
  { q \in FileSet :
      \/ ~CanRead(tree, QueuedFull(env, q))
      \/ ~tree.files[QueuedFull(env, q)].parses }

\* a broken file is a node of its path's type, with no edge leaving it and
\* no symbol recorded for it
StaysPlain(q) ==
  /\ \E i \in 1..Len(result.nodes) :
       /\ result.nodes[i].id = QueuedRel(env, q)
       /\ result.nodes[i].type = nodeTypeFromPath(env, QueuedRel(env, q))
  /\ \A e \in EdgeSet(result) : e.source # QueuedRel(env, q)
  /\ \A sym \in symbolMap : sym.file # QueuedRel(env, q)

\* the dependencies of the files that are not broken, resolved to a file of
\* the tree, each have an edge to that file or to one of its symbols
OthersLinked ==
  \A qd \in QueuedDeps :
    (/\ qd.queued \notin BrokenFiles
     /\ ~Resolve(env, tree, qd.queued, qd.dep.specifier, FileSet).none
     /\ ~Resolve(env, tree, qd.queued, qd.dep.specifier, FileSet).external) =>
      \E e \in EdgeSet(result) :
        /\ e.source = QueuedRel(env, qd.queued)
        /\ \/ e.target = TargetOf(Resolve(env, tree, qd.queued, qd.dep.specifier, FileSet))
           \/ \E sym \in symbolMap :
                /\ sym.file = TargetOf(Resolve(env, tree, qd.queued, qd.dep.specifier, FileSet))
                /\ e.target = SymbolId(sym.file, sym.name)

\* C16: a queued file that cannot be read or parsed never aborts the pass:
\* over a readable root the only failure is the capacity one, and in the
\* returned graph each such file is a plain node with no outgoing edge and
\* no symbol, while the dependencies of the other files have their edges.
C16_FileFailuresIsolated ==
  /\ (pc = "failed" /\ IsDir(tree, ROOT)) => CapacityFailure
  /\ pc = "done" => (\A q \in BrokenFiles : StaysPlain(q)) /\ OthersLinked

\* the same statement of C16 for the scan that reads through the file
\* system of the server, and for the files whose handle does not open
C16_WhereReadIsCaught ==
  (\A p \in DOMAIN tree.files : ~ReadThrows(env, tree, p)) => C16_FileFailuresIsolated

\* a pass with an unreadable and an unparsable queued file has finished
C16_FinishedWithBrokenFiles ==
  /\ pc = "done"
  /\ tree = BrokenTree("open_fails")
  /\ Cardinality(BrokenFiles) = 2
  /\ Len(result.edges) > 0

\* the text of a queued file could not be read and the pass has failed
C16_ReadFailed ==
  /\ pc = "failed"
  /\ result.error = "read"
  /\ totalFiles <= opts.maxFiles

\* text without the quotes around it, if any
Unquoted(text) ==
  IF Len(text) >= 2 /\ text[1] \in Quotes /\ text[Len(text)] \in Quotes
    THEN SubSeq(text, 2, Len(text) - 1)
    ELSE text

\* the address an @import rule names, in either of its forms: a string,
\* or url(...) around a string or around the bare address; NULL for any
\* other rule
DeclaredImport(rule) ==
  IF ~StartsWith(rule, AT_IMPORT) THEN NULL
  ELSE LET rest == Trim(SubSeq(rule, 8, Len(rule)))
           body == IF Includes(rest, ";") THEN SubSeq(rest, 1, IndexOf(rest, ";") - 1) ELSE rest
       IN IF StartsWith(body, URL_OPEN) /\ Includes(body, ")")
            THEN Unquoted(SubSeq(body, 5, IndexOf(body, ")") - 1))
            ELSE Unquoted(body)

\* the @import rules of the queued style files, each with the file it is in
StyleImportsOf(queued) ==
  IF ExtOf(env, queued) \in STYLE_EXTENSIONS /\ CanRead(tree, QueuedFull(env, queued))
    THEN { [queued |-> queued, address |-> DeclaredImport(tree.files[QueuedFull(env, queued)].stmts[i].text)] :
             i \in { j \in 1..Len(tree.files[QueuedFull(env, queued)].stmts) :
                       DeclaredImport(tree.files[QueuedFull(env, queued)].stmts[j].text) # NULL } }
    ELSE {}

StyleImports == UNION { StyleImportsOf(q) : q \in FileSet }

\* the verdict names a file of the tree with a style extension
ToStyleFile(verdict) ==
  /\ ~verdict.none
  /\ ~verdict.external
  /\ ExtOf(env, TargetOf(verdict)) \in STYLE_EXTENSIONS

HasStyleEdge(source, target) ==
  \E e \in EdgeSet(result) : e.source = source /\ e.target = target /\ e.type = "style"

\* C12: every dependency that resolves to a style file of the tree has an
\* edge of type style to that file, whether it is a static import, a
\* dynamic import(), a require(), or a stylesheet @import written as a
\* string or inside url(...).
C12_StyleEdges ==
  pc = "done" =>
    /\ \A qd \in QueuedDeps :
         ToStyleFile(Resolve(env, tree, qd.queued, qd.dep.specifier, FileSet)) =>
           \E e \in EdgeSet(result) :
             /\ e.source = QueuedRel(env, qd.queued)
             /\ e.target = TargetOf(Resolve(env, tree, qd.queued, qd.dep.specifier, FileSet))
             /\ e.type = "style"
             /\ e.statement = SliceTo(qd.dep.statement, StatementLimit)
    /\ \A si \in StyleImports :
         ToStyleFile(Resolve(env, tree, si.queued, si.address, FileSet)) =>
           HasStyleEdge(QueuedRel(env, si.queued),
                        TargetOf(Resolve(env, tree, si.queued, si.address, FileSet)))

\* the part of C12 about the dependencies the extractor reports: the three
\* script forms and the two quoted stylesheet forms
C12_ExtractedForms ==
  pc = "done" =>
    /\ \A qd \in QueuedDeps :
         ToStyleFile(Resolve(env, tree, qd.queued, qd.dep.specifier, FileSet)) =>
           \E e \in EdgeSet(result) :
             /\ e.source = QueuedRel(env, qd.queued)
             /\ e.target = TargetOf(Resolve(env, tree, qd.queued, qd.dep.specifier, FileSet))
             /\ e.type = "style"
             /\ e.statement = SliceTo(qd.dep.statement, StatementLimit)
    /\ tree = StyleTree =>
         /\ Cardinality({ e \in EdgeSet(result) : e.source = S_CSS /\ e.target = T_CSS /\ e.type = "style" }) = 2
         /\ Cardinality({ e \in EdgeSet(result) : e.source = A_TS /\ e.target = S_CSS /\ e.type = "style" }) = 3

\* the last segment of a root-relative path, and the ones before it
LastSegment(relPath) == Split(relPath, "/")[Len(Split(relPath, "/"))]
DirSegments(relPath) ==
  { Split(relPath, "/")[i] : i \in 1..(Len(Split(relPath, "/")) - 1) }

\* a script file named page or route below a directory named app
AppEntryShape(relPath) ==
  /\ APP \in DirSegments(relPath)
  /\ \E e \in RouteExtensions :
       LastSegment(relPath) \in { <<"p", "a", "g", "e">> \o e, <<"r", "o", "u", "t", "e">> \o e }

\* a script file below a directory named pages
PagesScript(relPath) ==
  /\ PAGES \in DirSegments(relPath)
  /\ \E e \in RouteExtensions : EndsWith(LastSegment(relPath), e)

Underscored(relPath) == StartsWith(LastSegment(relPath), <<"_">>)

HasStyleExtension(relPath) ==
  \E e \in STYLE_EXTENSIONS : EndsWith(relPath, e) /\ Len(LastSegment(relPath)) > Len(e)

\* the nodes that stand for files
FileNodes(nodeSeq) ==
  { n \in SeqIds(nodeSeq) : \A i \in 1..Len(nodeSeq) :
      nodeSeq[i].id = n => nodeSeq[i].type \notin {"symbol", "external"} }

TypeOfNode(nodeSeq, id) == (CHOOSE n \in { nodeSeq[i] : i \in 1..Len(nodeSeq) } : n.id = id).type

\* C13 as stated: a file node is typed route when its path is a page/route
\* script under app/ or an underscore-prefixed script in a pages/
\* directory; otherwise style when it has a style extension; otherwise
\* module.
C13_RouteTypingAsStated ==
  \A id \in FileNodes(nodes) \cup FileNodes(ignoredNodes) :
    LET n == IF id \in SeqIds(nodes) THEN TypeOfNode(nodes, id) ELSE TypeOfNode(ignoredNodes, id)
    IN n = IF AppEntryShape(id) \/ (PagesScript(id) /\ Underscored(id)) THEN "route"
           ELSE IF HasStyleExtension(id) THEN "style"
           ELSE "module"

\* C13, amended: a file node is typed route when its path is a page/route
\* script under app/, or a script in a pages/ directory whose name does
\* not start with an underscore; otherwise style when it has a style
\* extension; otherwise module (so pages/_app.tsx is a module).
C13_RouteTyping ==
  \A id \in FileNodes(nodes) \cup FileNodes(ignoredNodes) :
    LET n == IF id \in SeqIds(nodes) THEN TypeOfNode(nodes, id) ELSE TypeOfNode(ignoredNodes, id)
    IN n = IF AppEntryShape(id) \/ (PagesScript(id) /\ ~Underscored(id)) THEN "route"
           ELSE IF HasStyleExtension(id) THEN "style"
           ELSE "module"

\* a returned graph holding an app page typed route, a pages script typed
\* route and an underscore-prefixed pages script typed module
C13_Witness ==
  /\ pc = "done"
  /\ tree = RoutesTree
  /\ TypeOfNode(result.nodes, JoinWith(<<APP, PAGE_TSX>>, SLASH)) = "route"
  /\ TypeOfNode(result.nodes, JoinWith(<<PAGES, INDEX_TSX>>, SLASH)) = "route"
  /\ TypeOfNode(result.nodes, JoinWith(<<PAGES, UNDERSCORE_APP_TSX>>, SLASH)) = "module"

\* the dependencies the extractor finds in a queued file, in order
DepSeqOf(queued) ==
  IF CanRead(tree, QueuedFull(env, queued))
    THEN extractDependencies(env, queued, tree.files[QueuedFull(env, queued)])
    ELSE <<>>

\* the dependency occurrences (file, position) with the external verdict
ExternalAt(queued) ==
  { j \in 1..Len(DepSeqOf(queued)) :
      Resolve(env, tree, queued, DepSeqOf(queued)[j].specifier, FileSet).external }

ExternalOccurrences == UNION { { <<q, j>> : j \in ExternalAt(q) } : q \in FileSet }

\* C14: the __external__ node and the edges of type external are in the
\* returned graph if and only if includeExternal is set and some
\* dependency got the external verdict; every external edge targets that
\* node; externalCount is the number of dependency occurrences with the
\* external verdict, a number that does not depend on includeExternal.
C14_ExternalSentinel ==
  pc = "done" =>
    /\ result.externalCount = Cardinality(ExternalOccurrences)
    /\ (\E n \in NodeSet(result) : n.id = EXTERNAL_ID)
         <=> (opts.includeExternal /\ ExternalOccurrences # {})
    /\ (\E e \in EdgeSet(result) : e.type = "external")
         <=> (opts.includeExternal /\ ExternalOccurrences # {})
    /\ \A n \in NodeSet(result) : (n.type = "external") <=> (n.id = EXTERNAL_ID)
    /\ \A e \in EdgeSet(result) : (e.type = "external") <=> (e.target = EXTERNAL_ID)
    /\ \A qj \in ExternalOccurrences :
         opts.includeExternal =>
           \E e \in EdgeSet(result) :
             /\ e.type = "external"
             /\ e.source = QueuedRel(env, qj[1])
             /\ e.target = EXTERNAL_ID

\* a pass that met external references with includeExternal unset: they
\* are counted and the graph has no sentinel
C14_Witness ==
  /\ pc = "done"
  /\ ~opts.includeExternal
  /\ result.externalCount >= 2
  /\ \A n \in NodeSet(result) : n.id # EXTERNAL_ID

\* a pass that met external references with includeExternal set
C14_WitnessShown ==
  /\ pc = "done"
  /\ opts.includeExternal
  /\ result.externalCount >= 2
  /\ \E n \in NodeSet(result) : n.id = EXTERNAL_ID /\ n.type = "external"
  /\ \E e \in EdgeSet(result) : e.type = "external"

\* a bare, package-style specifier: not empty and starting neither with
\* the alias prefix nor with "/" nor with "."
IsBare(specifier) ==
  /\ specifier # <<>>
  /\ ~StartsWith(specifier, ALIAS)
  /\ ~StartsWith(specifier, SLASH)
  /\ ~StartsWith(specifier, DOT)

BareAt(queued) ==
  { j \in 1..Len(DepSeqOf(queued)) : IsBare(DepSeqOf(queued)[j].specifier) }

BareOccurrences == UNION { { <<q, j>> : j \in BareAt(q) } : q \in FileSet }

\* C15: every bare specifier gets the external verdict from the resolver
\* and is counted in externalCount.
C15_BareIsExternal ==
  pc = "done" =>
    /\ \A qj \in BareOccurrences :
         /\ Resolve(env, tree, qj[1], DepSeqOf(qj[1])[qj[2]].specifier, FileSet).external
         /\ [from |-> QueuedRel(env, qj[1]),
             specifier |-> DepSeqOf(qj[1])[qj[2]].specifier,
             external |-> TRUE, target |-> NULL] \in resolutions
    /\ BareOccurrences \subseteq ExternalOccurrences
    /\ result.externalCount >= Cardinality(BareOccurrences)

\* C15, amended: every bare specifier that does not begin with the
\* letters http gets the external verdict and is counted in externalCount;
\* one that begins with http gets no verdict and is not counted.
C15_BareExceptHttp ==
  pc = "done" =>
    /\ \A qj \in BareOccurrences :
         IF StartsWith(DepSeqOf(qj[1])[qj[2]].specifier, HTTP)
           THEN /\ qj \notin ExternalOccurrences
                /\ [from |-> QueuedRel(env, qj[1]),
                    specifier |-> DepSeqOf(qj[1])[qj[2]].specifier,
                    external |-> FALSE, target |-> NULL] \in resolutions
           ELSE /\ qj \in ExternalOccurrences
                /\ [from |-> QueuedRel(env, qj[1]),
                    specifier |-> DepSeqOf(qj[1])[qj[2]].specifier,
                    external |-> TRUE, target |-> NULL] \in resolutions
    /\ result.externalCount >=
         Cardinality({ qj \in BareOccurrences :
                         ~StartsWith(DepSeqOf(qj[1])[qj[2]].specifier, HTTP) })

\* a returned graph of a file that imports the packages react (twice) and
\* http: react was given the external verdict, http was dropped
C15_Witness ==
  /\ pc = "done"
  /\ [from |-> A_TS, specifier |-> SPEC_REACT, external |-> TRUE, target |-> NULL]
       \in resolutions
  /\ [from |-> A_TS, specifier |-> SPEC_HTTP_PACKAGE, external |-> FALSE, target |-> NULL]
       \in resolutions
  /\ result.externalCount >= 2

(***************************************************************************)
(* Watch manager.                                                          *)
(***************************************************************************)
\* no unsubscribe function has been called twice
AtMostOnce == \A c \in 1..Len(closures) : closures[c].invoked <= 1

\* the subscriptions of a root that have not been cancelled
Live(root) ==
  { c \in 1..Len(closures) : closures[c].root = root /\ closures[c].invoked = 0 }

\* the watchers of a root that have been created and not closed
OpenWatchers(root) ==
  { e \in 1..Len(entries) : entries[e].root = root /\ entries[e].open }

\* C17: as long as no unsubscribe function is called twice, a root has one
\* open watcher if it has a live subscription and none otherwise, it is
\* registered exactly when it has a live subscription, and the registered
\* entry's refCount is the number of its live subscriptions.
C17_OneWatcherPerRoot ==
  AtMostOnce =>
    \A root \in WatchRoots :
      /\ Cardinality(OpenWatchers(root)) = (IF Live(root) # {} THEN 1 ELSE 0)
      /\ (watchers[root] # 0) <=> (Live(root) # {})
      /\ watchers[root] # 0 =>
           /\ OpenWatchers(root) = {watchers[root]}
           /\ entries[watchers[root]].refCount = Cardinality(Live(root))

\* a root whose first watcher was closed by its last subscriber is watched
\* again, by two subscribers that share the second watcher
C17_Witness ==
  /\ AtMostOnce
  /\ \E root \in WatchRoots :
       /\ Cardinality(Live(root)) = 2
       /\ \E e \in 1..Len(entries) : entries[e].root = root /\ ~entries[e].open
       /\ Cardinality(OpenWatchers(root)) = 1

\* the live subscribers an event below `root` calls when every callback
\* returns: all of them
CalledAsStated(root) == Live(root)

\* the live subscribers an event below `root` calls: those with no live
\* subscriber of the root before them whose callback throws
CalledInOrder(root) ==
  { c \in Live(root) : \A d \in Live(root) : d < c => ~closures[d].throws }

FromExtraction(g) == \E root \in PageRoots, x \in BOOLEAN : g = GraphFor(root, x)

\* the filters hide none of the nodes and edges of the graph data
NothingHidden ==
  /\ filteredGraph(graphData, showIgnored, showExternal, focusMode, selectedNodeId).nodes
       = graphData.nodes
  /\ filteredGraph(graphData, showIgnored, showExternal, focusMode, selectedNodeId).edges
       = graphData.edges

\* C19: whenever the graph data an extraction returned is exported, with
\* whatever filters are set, the file parses back to that graph data:
\* same root, node list, edge list, totalFiles, ignoredCount, externalCount.
C19_ExportImportRoundTrip ==
  [][(exported' # exported /\ FromExtraction(graphData)) =>
       Parse(exported') = graphData]_vars

\* the same statement of C19 for the exports made while the filters hide
\* nothing
C19_WhenNothingIsHidden ==
  [][(exported' # exported /\ FromExtraction(graphData) /\ NothingHidden) =>
       Parse(exported') = graphData]_vars

\* a graph with an ignored node has been exported under the default filters
\* and imported again
C19_ExportedAndImported ==
  /\ exported # NoFile
  /\ importShown = exported
  /\ Parse(exported).root = WATCH_P
  /\ Parse(exported).ignoredCount = 1

\* C20: from an import until the user changes a setting, rebuilds or
\* selects a folder, or a file system change is notified, the imported
\* graph stays the graph data and no scan request is issued.
C20_ImportNeverScans ==
  [][importShown' # NoFile =>
       /\ graphData' = Parse(importShown')
       /\ importShown # NoFile => scanCount' = scanCount]_vars

\* the same statement of C20 for the steps taken while the imported graph
\* is shown, no timeout is pending and no scan request is in flight
C20_WhenNothingIsPending ==
  [][(/\ importShown' # NoFile
      /\ watchTimer = NoTimer /\ requests = {}
      /\ importShown # NoFile => graphData = Parse(importShown)) =>
       /\ graphData' = Parse(importShown')
       /\ importShown # NoFile => scanCount' = scanCount]_vars

\* an import selected another root while watching, and the scan effect let
\* the import pass without a request
C20_ImportedOtherRoot ==
  /\ importShown # NoFile
  /\ selectedRoot = WATCH_Q
  /\ graphData = GraphFor(WATCH_P, FALSE)
  /\ watchSource = WATCH_Q
  /\ requests = {}

(***************************************************************************)
(* Root detection.                                                         *)
(***************************************************************************)
\* the input path made absolute, and that directory with its ancestors
\* up to the file system root
SelfAndAncestors(path) ==
  { SLASH } \cup
  { SubSeq(PathResolve(CWD, path), 1, k) :
      k \in { j \in 1..Len(PathResolve(CWD, path)) :
                \/ j = Len(PathResolve(CWD, path))
                \/ PathResolve(CWD, path)[j + 1] = "/" } }

\* where the .git of a directory is
GitAt(dir) == (IF dir = SLASH THEN dir ELSE dir \o SLASH) \o DOT_GIT

\* the directories among those that hold a .git directory
WithGit(dirs) == { d \in dirs : GitAt(d) \in detectFs }

\* the longest of a set of paths of one chain, NULL for the empty set
Nearest(dirs) ==
  IF dirs = {} THEN NULL ELSE CHOOSE d \in dirs : \A o \in dirs : Len(o) <= Len(d)

\* what holds at every point of a call
DetectSound ==
  /\ \A i, j \in 1..Len(statted) : i # j => statted[i] # statted[j]
  /\ \A i \in 1..Len(statted) :
       statted[i] \in { GitAt(d) : d \in SelfAndAncestors(inputPath) }
  /\ detectPc = "done" => repoRoot = Nearest(WithGit(SelfAndAncestors(inputPath)))

\* C21: every call of detectRepoRoot returns; it looks at the input
\* directory and at each of its ancestors at most once and at nothing
\* else, and it returns the nearest of them that holds a .git directory,
\* or null when none does.
C21_DetectRepoRoot == []DetectSound /\ <>(detectPc = "done")

\* a relative input two levels below the working directory, whose .git is
\* found after two misses although the root and /q hold one too
C21_Witness ==
  /\ detectPc = "done"
  /\ inputPath = <<"s", "/", "t">>
  /\ repoRoot = CWD
  /\ Len(statted) = 3
  /\ GitAt(SLASH) \in detectFs
  /\ <<"/", "q", "/", ".", "g", "i", "t">> \in detectFs

\* the walk reached the file system root from the deepest input and found
\* nothing
C21_WitnessNone ==
  /\ detectPc = "done"
  /\ inputPath = P_S_T \o SLASH
  /\ repoRoot = NULL
  /\ Len(statted) = 4

(***************************************************************************)
(* C22: unanchored lines without an inner separator.                       *)
(***************************************************************************)
\* the line as the ignore-file format reads it: blanks aside, an optional
\* "!", the name, an optional "/"
LineNegated == Head(Trim(lineRaw)) = "!"

LineDirOnly == EndsWith(Trim(lineRaw), SLASH)

LineName ==
  LET t == Trim(lineRaw)
      u == IF LineNegated THEN Tail(t) ELSE t
  IN IF LineDirOnly THEN SubSeq(u, 1, Len(u) - 1) ELSE u

\* the tested path lies below the declaring directory, at any depth, and
\* its last segment is the name; a directory-only line wants a directory
NameBelowDir ==
  LET dsegs == FilterNonEmpty(Split(lineDir, "/"))
      psegs == FilterNonEmpty(Split(lineTested, "/"))
  IN /\ Len(psegs) > Len(dsegs)
     /\ SubSeq(psegs, 1, Len(dsegs)) = dsegs
     /\ psegs[Len(psegs)] = LineName
     /\ LineDirOnly => EndsWith(lineTested, SLASH)

LineHandledAsStated ==
  /\ linePattern # NULL
  /\ (Head(linePattern) = "!") <=> LineNegated
  /\ EndsWith(linePattern, SLASH) <=> LineDirOnly
  /\ lineMatched <=> NameBelowDir

\* C22: the rule made from an unanchored line without an inner separator,
\* declared in directory D, matches exactly the paths below D (at every
\* depth) whose last segment is the name, directories only when the line
\* ends in "/", and it is negated exactly when the line starts with "!".
C22_NameAtEveryDepth == linePc = "tested" => LineHandledAsStated

\* the same for the lines without a trailing "/" and for the lines of the
\* root's ignore file
C22_WithoutSlashOrAtRoot ==
  (linePc = "tested" /\ (~LineDirOnly \/ lineDir = <<>>)) => LineHandledAsStated

\* "n/" declared in d is not matched against the directory d/e/n
C22_NestedDirOnlyMissed ==
  /\ linePc = "tested"
  /\ lineDir = IGNORE_D
  /\ lineRaw = <<"n", "/">>
  /\ linePattern = <<"d", "/", "n", "/">>
  /\ lineTested = <<"d", "/", "e", "/", "n", "/">>
  /\ ~lineMatched

(***************************************************************************)
(* C23: the debounce of watch messages.                                    *)
(***************************************************************************)
\* two watch-triggered re-extractions never start less than 500 ms apart
AtMostOnePerWindow ==
  \A i, j \in 1..Len(fetchStarts) :
    i < j => fetchStarts[j] - fetchStarts[i] >= WatchDelay

\* a re-extraction starts only after a message, 500 ms or more after the
\* first message since the one before
NeverUnasked == Len(fetchStarts) <= arrivals

\* C23: while one root is watched, at most one watch-triggered
\* re-extraction starts in any window of 500 ms however many messages
\* arrive, and every change message is followed by a re-extraction that
\* starts after it arrived.
C23_Debounced ==
  /\ [](AtMostOnePerWindow /\ NeverUnasked)
  /\ (waiting # NoTime) ~> (waiting = NoTime)

\* four messages answered by two re-extractions, the first one 500 ms
\* after the first message
C23_Witness ==
  /\ arrivals = 4
  /\ Len(fetchStarts) = 2
  /\ fetchStarts[1] = WatchDelay
  /\ waiting = NoTime
  /\ timeouts = <<>>

(***************************************************************************)
(* C24: what a closed stream leaves behind.                                *)
(***************************************************************************)
StreamsOf(root) == { i \in 1..Len(streams) : streams[i].root = root }

AllClosed(root) ==
  /\ StreamsOf(root) # {}
  /\ \A i \in StreamsOf(root) : streams[i].state = "cancelled"

\* the stream's subscription is cancelled and its heartbeat is cleared
Released(i) ==
  /\ closures[streams[i].closure].invoked > 0
  /\ ~streams[i].heartbeat

\* C24: a cancelled stream's subscription is cancelled and its heartbeat
\* cleared, and a root all of whose streams are cancelled comes to have no
\* open watcher.
C24_ClosedStreamsReleased ==
  /\ \A i \in 1..MaxSubscriptions :
       (i <= Len(streams) /\ streams[i].state = "cancelled")
         ~> (i <= Len(streams) /\ Released(i))
  /\ \A root \in WatchRoots : AllClosed(root) ~> (OpenWatchers(root) = {})

\* while its streams are open a root has exactly one watcher, whose
\* refCount is the number of the root's streams, cancelled ones included
C24_StreamsShareWatcher ==
  \A root \in WatchRoots :
    StreamsOf(root) # {} =>
      /\ Cardinality(OpenWatchers(root)) = 1
      /\ watchers[root] # 0
      /\ entries[watchers[root]].refCount = Cardinality(StreamsOf(root))

\* every stream of /p was cancelled, its watcher is open with both
\* subscriptions, and a heartbeat has failed on a cancelled stream
C24_LeftBehind ==
  /\ AllClosed(WATCH_P)
  /\ Cardinality(StreamsOf(WATCH_P)) = 2
  /\ OpenWatchers(WATCH_P) # {}
  /\ \E i \in StreamsOf(WATCH_P) : streams[i].failed /\ streams[i].heartbeat

(***************************************************************************)
(* C25: the server scan and the browser scan of one tree.                  *)
(***************************************************************************)
\* both scans have returned
BothDone == pass = 2 /\ pc \in {"done", "failed"} /\ first.status # "none"

\* every file of the tree can be read
AllReadable == tree \notin BrokenTrees

\* C25: for the same tree and options the server scan and the browser scan
\* give every dependency the same verdict and return the same nodes (id,
\* type, ignored flag), the same edges by (source, target, type) and the
\* same totalFiles, ignoredCount and externalCount.
C25_ServerAndBrowserAgree ==
  (BothDone /\ AllReadable) => Comparison(result, resolutions) = first

\* both scans end the same way: a graph, or the same error
C25_SameOutcome ==
  (BothDone /\ AllReadable) =>
    /\ result.status = first.status
    /\ result.error = first.error

\* both scans returned a graph and the graphs differ
C25_GraphsDiffer ==
  /\ BothDone /\ AllReadable
  /\ result.status = "graph" /\ first.status = "graph"
  /\ Comparison(result, resolutions) # first

(***************************************************************************)
(* C26: the file nodes of a returned graph.                                *)
(***************************************************************************)
\* the root-relative paths of the files the walk queued
QueuedPaths == { QueuedRel(env, filesToParse[i]) : i \in 1..Len(filesToParse) }

\* the files the tree says are to be queued: inside the root, neither
\* ignored nor below an ignored directory, with a supported extension
ToBeQueued ==
  { RelOf(p) : p \in { q \in CountedFiles(env, tree) : isSupportedFile(env, q) } }

\* the nodes of the returned graph that stand for files not marked ignored
ShownFileNodes ==
  { result.nodes[i].id :
      i \in { j \in 1..Len(result.nodes) :
                /\ result.nodes[j].type \in {"route", "module", "style"}
                /\ ~result.nodes[j].ignored } }

\* C26: in a returned graph every route, module or style node without the
\* ignored flag is a file the walk queued: inside the root, with a
\* supported extension, not ignored and not below an ignored directory; no
\* import introduces a node for another file.
C26_FileNodesAreQueued ==
  pc = "done" => (ShownFileNodes \subseteq QueuedPaths /\ QueuedPaths = ToBeQueued)

\* the same for the browser scan, whose resolver knows the queued files only
C26_InTheBrowser ==
  (pc = "done" /\ env = "browser") =>
    (ShownFileNodes \subseteq QueuedPaths /\ QueuedPaths = ToBeQueued)

\* the server scan returned a node, not marked ignored, for a file below an
\* ignored directory that an import names
C26_PrunedFileShown ==
  /\ pc = "done"
  /\ env = "server"
  /\ <<"s", "u", "b", "/", "c", ".", "t", "s">> \in ShownFileNodes \ QueuedPaths

(***************************************************************************)
(* C27: an unsubscribe function called again.                              *)
(***************************************************************************)
\* the step is a call of unsubscribe function c that is not its first
CalledAgain(c) ==
  /\ closures[c].invoked >= 1
  /\ closures'[c].invoked = closures[c].invoked + 1

\* C27: a call of an unsubscribe function that is not the first call of
\* that function changes no reference count, closes no watcher and removes
\* no registry entry, whatever was subscribed or unsubscribed in between.
C27_SecondCallHasNoEffect ==
  [][\A c \in 1..Len(closures) :
       CalledAgain(c) => (entries' = entries /\ watchers' = watchers)]_vars

\* a repeated call never touches the listeners of the emitter again
C27_SecondCallKeepsListeners ==
  [][\A c \in 1..Len(closures) :
       CalledAgain(c) =>
         \A e \in 1..Len(entries) : entries'[e].listeners = entries[e].listeners]_vars

\* a subscription that was never cancelled is left without a watcher: the
\* other subscriber of its root called its unsubscribe function twice
C27_LiveWithoutWatcher ==
  \E c \in 1..Len(closures) :
    /\ closures[c].invoked = 0
    /\ OpenWatchers(closures[c].root) = {}
    /\ \E d \in 1..Len(closures) :
         /\ closures[d].root = closures[c].root
         /\ closures[d].invoked = 2
    /\ \A d \in 1..Len(closures) : closures[d].invoked # 1

(***************************************************************************)
(* C28: several scans in flight.                                           *)
(***************************************************************************)
\* the step applies the response of request r and leaves no scan in flight
LastResponse(r) ==
  /\ requests = {r}
  /\ requests' = {}
  /\ graphData' = GraphFor(r.root, r.includeExternal)

\* more scans than one were started
SeveralStarted == scanCount > 1

\* C28: when the last of several scans completes, the graph then shown is
\* the result of the scan that was started last, and it is a graph of the
\* selected root.
C28_LatestScanWins ==
  [][\A r \in requests :
       (LastResponse(r) /\ SeveralStarted) =>
         (r.id = scanCount /\ r.root = selectedRoot')]_vars

\* every response that is applied shows the graph of its own request
C28_ResponseIsShown ==
  [][\A r \in requests :
       (requests' = requests \ {r} /\ graphData' # graphData) =>
         graphData' = GraphFor(r.root, r.includeExternal)]_vars

\* both scans have completed and the page shows the graph of the scan
\* started first, made with the setting the user has switched off since
C28_StaleGraphShown ==
  /\ requests = {}
  /\ scanCount = 2
  /\ importShown = NoFile
  /\ selectedRoot # NULL
  /\ graphData = GraphFor(selectedRoot, ~showExternal)
  /\ graphData # GraphFor(selectedRoot, showExternal)
  /\ watchTimer = NoTimer /\ messages = <<>>

\* both scans have completed and the page shows a graph of the root that
\* was selected before
C28_OtherRootShown ==
  /\ requests = {}
  /\ scanCount = 2
  /\ importShown = NoFile
  /\ selectedRoot # NULL
  /\ graphData # NoGraph
  /\ graphData.root # selectedRoot

(***************************************************************************)
(* C29: which stream messages schedule a re-extraction.                    *)
(***************************************************************************)
\* the step sets the timeout that re-extracts
TimeoutSet == watchTimer = NoTimer /\ watchTimer' # NoTimer

\* C29: the timeout that starts a watch-triggered re-extraction is set only
\* when the stream delivers a change message, never for ready or ping.
C29_OnlyChangeSchedules ==
  [][TimeoutSet => (messages # <<>> /\ Head(messages) = "change")]_vars

\* the timeout is set only by the delivery of a message of the stream
C29_OnlyMessagesSchedule ==
  [][TimeoutSet => (messages # <<>> /\ messages' = Tail(messages))]_vars

(***************************************************************************)
(* C30: the ends of the edges.                                             *)
(***************************************************************************)
\* the ids of the nodes of the returned graph
ReturnedNodeIds == { result.nodes[i].id : i \in 1..Len(result.nodes) }

\* C30: in every returned graph the source and the target of every edge,
\* whatever its type, are ids of nodes of that graph.
C30_EdgesJoinNodes ==
  result.status = "graph" =>
    \A i \in 1..Len(result.edges) :
      /\ result.edges[i].source \in ReturnedNodeIds
      /\ result.edges[i].target \in ReturnedNodeIds

\* a returned symbol-mode graph with external references shown: it holds a
\* contains edge, an edge to the external node and an edge that ends at a
\* symbol of another file
C30_Witness ==
  /\ result.status = "graph"
  /\ opts.granularity = "symbol" /\ opts.includeExternal
  /\ \E i, j, k \in 1..Len(result.edges) :
       /\ result.edges[i].type = "contains"
       /\ result.edges[j].type = "external" /\ result.edges[j].target = EXTERNAL_ID
       /\ result.edges[k].type \in {"static", "dynamic"}
       /\ \E n \in 1..Len(result.nodes) :
            /\ result.nodes[n].id = result.edges[k].target
            /\ result.nodes[n].type = "symbol"

\* a returned graph with an edge to a file that no walk queued
C30_WitnessUnqueuedTarget ==
  /\ result.status = "graph"
  /\ \E k \in 1..Len(result.edges) :
       /\ result.edges[k].type \in {"static", "dynamic", "style"}
       /\ result.edges[k].target \in ShownFileNodes \ QueuedPaths

====
